---------------------------- MODULE Spec2Model ----------------------------
(***************************************************************************)
(* A model of mldata.py: FeatureGuide, PandasFullDataset and               *)
(* PandasTrainTestSplit with their column transforms (index mapping,       *)
(* imputation, Z-score scaling, cold-start removal).                       *)
(*                                                                         *)
(* Representation.                                                         *)
(*   - A DataFrame is a record [cols |-> set of column names,              *)
(*     rows |-> sequence of rows], a row being a function from the column  *)
(*     names to cell values.                                               *)
(*   - An entity id and a target value is an integer.                      *)
(*   - A real-valued cell is NaN or an exact number a + b*sqrt(v), kept as *)
(*     the record [a |-> rational, b |-> rational]; v is the variance of   *)
(*     the column's StandardScaler.  A rational is a pair <<n, d>> in      *)
(*     lowest terms with d > 0.  Z-scoring divides by sqrt(v), which is    *)
(*     irrational in general; this representation keeps scale and its      *)
(*     inverse exact instead of approximating them.                        *)
(*   - An object (self) is the record of its attributes; every method is   *)
(*     an operator from self and its arguments to the record               *)
(*     [self |-> attributes after the call, err |-> exception raised or    *)
(*     "none"].  A method that raises half-way returns the attributes as   *)
(*     they are at the raise.                                              *)
(* The behaviour of pandas and scikit-learn is that of the versions the    *)
(* code was written for (Python 2, scikit-learn before 0.20): unique()     *)
(* keeps the order of first appearance, median/mean skip NaN and give NaN  *)
(* for an all-NaN column, fillna(NaN) changes nothing, StandardScaler      *)
(* rejects NaN with a ValueError and uses 1 in place of a zero standard    *)
(* deviation.  An OrderedSet (package oset) is a doubly linked list of keys  *)
(* with a dict from key to node; remove(key) unlinks the node of key and   *)
(* leaves the pointers of that node as they are.                           *)
(***************************************************************************)
EXTENDS Integers, Sequences, FiniteSets, TLC

VARIABLES
    kind,         \* "none" (nothing constructed), "full" or "split"
    fguide,       \* self.fguide
    dataset,      \* PandasFullDataset.dataset
    train,        \* PandasTrainTestSplit.train
    test,         \* PandasTrainTestSplit.test
    column_maps,  \* self.column_maps : column -> reverse id map
    imputations,  \* self.imputations : column -> fill value
    scalers,      \* self.scalers : column -> (scaler, scaled)
    err,          \* exception raised by the last call, or "none"
    lastOp,       \* the last call: [name, cols, arg, method]
    before,       \* the attributes of self when the last call was made
    ret,          \* the value the last call returned, None when it has none
    splitter,     \* the PandasDatasetSplitter made from the dataset, or None
    splits,       \* the (value, split) pairs the splitter has yielded
    it,           \* the generator made by __iter__ or iteritems, or None
    config,       \* the lines of the feature guide file, as texts
    steps         \* number of calls made so far

vars == <<kind, fguide, dataset, train, test, column_maps, imputations,
          scalers, err, lastOp, before, ret, splitter, splits, it, config,
          steps>>

---------------------------------------------------------------------------
(* Bounds of the model.                                                    *)

\* calls per behaviour (the construction included)
MaxSteps == 3
\* rows of a training table (and of a full dataset) with entity data
MaxIdTrainRows == 3
\* rows of a test table with entity data
MaxIdTestRows == 2
\* rows of a training table (and of a full dataset) with real-valued data
MaxRealTrainRows == 3
\* lines of a feature guide file
MaxLines == 3

---------------------------------------------------------------------------
(* Sequences.                                                              *)

Range(s) == {s[i] : i \in 1..Len(s)}

Contains(s, x) == \E i \in 1..Len(s) : s[i] = x

\* the sequences over S of length lo..hi
SeqsOf(S, lo, hi) == UNION {[1..n -> S] : n \in lo..hi}

\* s without x
SeqRemove(s, x) == SelectSeq(s, LAMBDA y : y # x)

\* f without the key k
DropKey(f, k) == [x \in (DOMAIN f) \ {k} |-> f[x]]

\* f with f[k] = v, k added when new
PutKey(f, k, v) == [x \in (DOMAIN f) \cup {k} |-> IF x = k THEN v ELSE f[x]]

EmptyMap == [x \in {} |-> 0]

---------------------------------------------------------------------------
(* Exact arithmetic: rationals <<n, d>>, d > 0, in lowest terms.           *)

Abs(n) == IF n < 0 THEN -n ELSE n

RECURSIVE GCD(_, _)
GCD(a, b) == IF b = 0 THEN a ELSE GCD(b, a % b)

Rat(n, d) ==
    LET nn == IF d < 0 THEN -n ELSE n
        dd == Abs(d)
        g  == GCD(Abs(nn), dd)
    IN  <<nn \div g, dd \div g>>

RInt(n) == <<n, 1>>
RAdd(x, y) == Rat(x[1] * y[2] + y[1] * x[2], x[2] * y[2])
RSub(x, y) == Rat(x[1] * y[2] - y[1] * x[2], x[2] * y[2])
RMul(x, y) == Rat(x[1] * y[1], x[2] * y[2])
RDiv(x, y) == Rat(x[1] * y[2], x[2] * y[1])
RSign(x) == IF x[1] < 0 THEN -1 ELSE IF x[1] = 0 THEN 0 ELSE 1

IsSquare(n) == \E k \in 0..n : k * k = n
ISqrt(n) == CHOOSE k \in 0..n : k * k = n
RIsSquare(x) == x[1] >= 0 /\ IsSquare(x[1]) /\ IsSquare(x[2])
RSqrt(x) == <<ISqrt(x[1]), ISqrt(x[2])>>

(* Real-valued cells: NaN, or a + b*sqrt(v).                               *)
NaN == [nan |-> TRUE]
isnull(x) == x = NaN
Real(n) == [a |-> RInt(n), b |-> RInt(0)]
QAdd(x, y) == [a |-> RAdd(x.a, y.a), b |-> RAdd(x.b, y.b)]
QDivInt(x, n) == [a |-> RDiv(x.a, RInt(n)), b |-> RDiv(x.b, RInt(n))]

\* sign of a + b*sqrt(v), v >= 0
QSign(x, v) ==
    LET sa == RSign(x.a)
        sb == IF RSign(v) = 0 THEN 0 ELSE RSign(x.b)
        a2 == RMul(x.a, x.a)
        b2v == RMul(RMul(x.b, x.b), v)
    IN  IF sb = 0 THEN sa
        ELSE IF sa = 0 THEN sb
        ELSE IF sa = sb THEN sa
        ELSE LET c == RSign(RSub(a2, b2v))   \* |a| against |b|*sqrt(v)
             IN  IF c = 0 THEN 0 ELSE IF c > 0 THEN sa ELSE sb

QLess(x, y, v) ==
    QSign([a |-> RSub(x.a, y.a), b |-> RSub(x.b, y.b)], v) < 0

---------------------------------------------------------------------------
(* pandas: DataFrame and Series operations used by the code.               *)

DataFrame(cols, rows) == [cols |-> cols, rows |-> rows]

NoTable == DataFrame({}, <<>>)

\* df[col] as a sequence of cells (the caller has checked col \in df.cols)
Column(df, col) == [i \in 1..Len(df.rows) |-> df.rows[i][col]]

\* df[col] = vals / df.loc[:, col] = vals
SetColumn(df, col, vals) ==
    DataFrame(df.cols \cup {col},
              [i \in 1..Len(df.rows) |->
                  [c \in df.cols \cup {col} |->
                      IF c = col THEN vals[i] ELSE df.rows[i][c]]])

\* a faulty variant of pop: the column stays in the table
pop_kept(df, name) == df

\* df.pop(name), the column removed in place
pop(df, name) ==
    DataFrame(df.cols \ {name},
              [i \in 1..Len(df.rows) |->
                  [c \in df.cols \ {name} |-> df.rows[i][c]]])

\* df[mask]: the rows whose index is in keep, order kept
RECURSIVE SelectRows(_, _, _)
SelectRows(rows, keep, i) ==
    IF i > Len(rows) THEN <<>>
    ELSE (IF i \in keep THEN <<rows[i]>> ELSE <<>>)
         \o SelectRows(rows, keep, i + 1)

\* Series.unique(): the distinct values in order of first appearance
RECURSIVE unique(_)
unique(s) ==
    IF s = <<>> THEN <<>>
    ELSE LET init == unique(SubSeq(s, 1, Len(s) - 1))
             last == s[Len(s)]
         IN  IF Contains(init, last) THEN init ELSE Append(init, last)

\* Series.apply(lambda _id: m[_id]); the caller has checked the keys
apply(s, m) == [i \in 1..Len(s) |-> m[s[i]]]

\* the non-null cells of a real-valued Series
dropna(s) == SelectSeq(s, LAMBDA x : ~isnull(x))

\* Series.isnull().sum()
isnull_sum(s) == Len(s) - Len(dropna(s))

\* Series.fillna(value); fillna(NaN) leaves the Series as it is
fillna(s, value) == [i \in 1..Len(s) |-> IF isnull(s[i]) THEN value ELSE s[i]]

RECURSIVE QSum(_)
QSum(s) == IF s = <<>> THEN Real(0) ELSE QAdd(Head(s), QSum(Tail(s)))

\* Series.mean(): NaN skipped, NaN when nothing is left
mean(s) ==
    LET xs == dropna(s)
    IN  IF xs = <<>> THEN NaN ELSE QDivInt(QSum(xs), Len(xs))

\* the k-th smallest (k from 1) of the non-null cells xs, ordered with the
\* column's radicand v
KthSmallest(xs, k, v) ==
    LET rank(i) == Cardinality({j \in 1..Len(xs) :
                        QLess(xs[j], xs[i], v) \/ (xs[j] = xs[i] /\ j < i)})
    IN  xs[CHOOSE i \in 1..Len(xs) : rank(i) = k - 1]

\* Series.median(): NaN skipped, NaN when nothing is left; the mean of the
\* two middle values for an even count
median(s, v) ==
    LET xs == dropna(s)
        n  == Len(xs)
    IN  IF n = 0 THEN NaN
        ELSE IF n % 2 = 1 THEN KthSmallest(xs, (n + 1) \div 2, v)
        ELSE QDivInt(QAdd(KthSmallest(xs, n \div 2, v),
                          KthSmallest(xs, n \div 2 + 1, v)), 2)

---------------------------------------------------------------------------
(* FeatureGuide: a record of the six sections; target is a single name,    *)
(* the others are OrderedSets (sequences without repetition).              *)

\* the value of a call that returns nothing
None == [none |-> TRUE]

other_sections == {"target", "index"}

\* tuple(set(sections) - set(other_sections)): the key section is in it
feature_sections == {"key", "entities", "categoricals", "real_valueds"}

\* FeatureGuide.config_guide
config_guide ==
    [t |-> "target", i |-> "index", k |-> "key", e |-> "entities",
     c |-> "categoricals", r |-> "real_valueds"]

\* a text is the sequence of its characters; the string of a text
RECURSIVE str(_)
str(text) ==
    IF text = <<>> THEN ""
    ELSE str(SubSeq(text, 1, Len(text) - 1)) \o text[Len(text)]

\* s.strip()
RECURSIVE strip(_)
strip(s) ==
    IF s # <<>> /\ s[1] = " " THEN strip(Tail(s))
    ELSE IF s # <<>> /\ s[Len(s)] = " " THEN strip(SubSeq(s, 1, Len(s) - 1))
    ELSE s

\* s.split(sep), sep a character
RECURSIVE split(_, _)
split(s, sep) ==
    IF ~Contains(s, sep) THEN <<s>>
    ELSE LET i == CHOOSE j \in 1..Len(s) :
                     s[j] = sep /\ \A h \in 1..(j - 1) : s[h] # sep
         IN  <<SubSeq(s, 1, i - 1)>> \o split(SubSeq(s, i + 1, Len(s)), sep)

\* the lines parse_config loops over: each line of the file stripped, the
\* empty ones and the comments left out
code_lines(lines) ==
    SelectSeq([i \in 1..Len(lines) |-> strip(lines[i])],
              LAMBDA l : l # <<>> /\ l[1] # "#")

\* the values a line adds to its section: [val.strip() for val in
\* csv.split(',')], the last one without its last character when the line
\* ends in ';'
values(csv, ended) ==
    LET vals == [j \in 1..Len(split(csv, ",")) |-> strip(split(csv, ",")[j])]
        last == vals[Len(vals)]
    IN  IF ended
        THEN [vals EXCEPT ![Len(vals)] = SubSeq(last, 1, Len(last) - 1)]
        ELSE vals

\* the loop of parse_config from the i-th line on: parsing is the state of
\* the state machine, k the letter of the section being read
RECURSIVE parse_loop(_, _, _, _, _)
parse_loop(lines, i, parsing, k, vars_) ==
    IF i > Len(lines) THEN [vars |-> vars_, err |-> "none"]
    ELSE LET line  == lines[i]
             parts == split(line, ":")
             k_    == IF parsing THEN k ELSE str(parts[1])
             csv   == IF parsing THEN line ELSE parts[2]
             ended == line[Len(line)] = ";"
             vals  == values(csv, ended)
         IN  IF ~parsing /\ Len(parts) # 2
             THEN [vars |-> vars_, err |-> "ValueError"]
             ELSE IF k_ \notin DOMAIN config_guide
             THEN [vars |-> vars_, err |-> "KeyError"]
             ELSE parse_loop(lines, i + 1, ~ended, k_,
                             [vars_ EXCEPT
                                 ![k_] = vars_[k_] \o
                                     [j \in 1..Len(vals) |-> str(vals[j])]])

\* FeatureGuide.parse_config(fname), lines being f.read().split('\n'):
\* letter -> list of names, the empty ones removed
parse_config(lines) ==
    LET r == parse_loop(code_lines(lines), 1, FALSE, "",
                        [k \in DOMAIN config_guide |-> <<>>])
    IN  [vars |-> [k \in DOMAIN config_guide |->
                      SelectSeq(r.vars[k], LAMBDA val : val # "")],
         err |-> r.err]

\* OrderedSet(names)
OrderedSet(names) == unique(names)

\* FeatureGuide.restore: the guide read from the lines
restore(lines) ==
    LET p == parse_config(lines)
    IN  IF p.err # "none" THEN [err |-> p.err]
        ELSE IF Len(p.vars["t"]) # 1 THEN [err |-> "BadFeatureConfig"]
        ELSE IF Len(p.vars["e"]) = 0 THEN [err |-> "BadFeatureConfig"]
        ELSE [err |-> "none",
              fguide |-> [target |-> OrderedSet(p.vars["t"])[1],
                          index |-> OrderedSet(p.vars["i"]),
                          key |-> OrderedSet(p.vars["k"]),
                          entities |-> OrderedSet(p.vars["e"]),
                          categoricals |-> OrderedSet(p.vars["c"]),
                          real_valueds |-> OrderedSet(p.vars["r"])]]

\* OrderedSet `a | b`: the keys of a, then the keys of b that a has not
OrderedSet_or(a, b) == a \o SelectSeq(b, LAMBDA x : ~Contains(a, x))

\* FeatureGuide.union(other, inplace): the guide self is after the call, the
\* guide returned and the exception raised
FeatureGuide_union(fg, other, inplace) ==
    IF fg.target # other.target
    THEN [fguide |-> fg, err |-> "ValueError", ret |-> None]
    ELSE LET union == [name \in DOMAIN fg |->
                          IF name = "target" THEN fg.target
                          ELSE OrderedSet_or(fg[name], other[name])]
         IN  [fguide |-> IF inplace THEN union ELSE fg, err |-> "none",
              ret |-> union]

\* what `getattr(union, name).union(...)` does: the OrderedSet of the
\* package has no method union (AttributeError), or it has the one of the
\* built-in set, which returns a new set and leaves its receiver as it was
OrderedSet_union == {"AttributeError", "new set"}

\* FeatureGuide.union_all(feature_guides), a non-empty list: the guides of
\* the list after the call, the guide returned and the exception raised
FeatureGuide_union_all(feature_guides, method) ==
    IF Cardinality({feature_guides[i].target :
                       i \in 1..Len(feature_guides)}) # 1
    THEN [guides |-> feature_guides, err |-> "ValueError", ret |-> None]
    ELSE IF method = "AttributeError"
    THEN [guides |-> feature_guides, err |-> "AttributeError", ret |-> None]
    ELSE [guides |-> feature_guides, err |-> "none",
          ret |-> feature_guides[1]]

\* FeatureGuide.remove(name)
FeatureGuide_remove(fg, name) ==
    IF name \in other_sections THEN [fguide |-> fg, err |-> "AttributeError"]
    ELSE IF Contains(fg.key, name) THEN [fguide |-> fg, err |-> "AttributeError"]
    ELSE LET removed == Cardinality({sec \in feature_sections :
                                        Contains(fg[sec], name)})
             after == [sec \in DOMAIN fg |->
                          IF sec \in feature_sections
                          THEN SeqRemove(fg[sec], name) ELSE fg[sec]]
         IN  IF removed = 0 THEN [fguide |-> fg, err |-> "KeyError"]
             ELSE [fguide |-> after, err |-> "none"]

\* FeatureGuide.feature_names, as a set: the names of the feature sections
feature_names(fg) == UNION {Range(fg[sec]) : sec \in feature_sections}

\* FeatureGuide.all_names, as a set: the feature names, the target and the
\* index
all_names(fg) == feature_names(fg) \cup {fg.target} \cup Range(fg.index)

\* PandasDataset.index_from_feature_guide(fguide): the list of index
\* columns, None as the empty list.  The names of the key are feature names,
\* so that key - feature_names is the key only when the key is empty.
index_from_feature_guide(fg) ==
    IF fg.index # <<>> THEN fg.index
    ELSE IF fg.key # <<>>
            /\ SelectSeq(fg.key, LAMBDA x : x \notin feature_names(fg)) = fg.key
    THEN fg.key
    ELSE <<>>

---------------------------------------------------------------------------
(* Method results.                                                         *)

Ok(self) == [self |-> self, err |-> "none"]
Raise(self, e) == [self |-> self, err |-> e]

\* `return value`
Return(self, value) == [self |-> self, err |-> "none", ret |-> value]

---------------------------------------------------------------------------
(* Index mapping.                                                          *)

\* dict(izip(ids, xrange(n))): original id -> 0-contiguous index
idmap(ids) ==
    [x \in Range(ids) |-> (CHOOSE i \in 1..Len(ids) : ids[i] = x) - 1]

\* {val: key for key, val in idmap.iteritems()}
reverse_map(ids) == [k \in 0..(Len(ids) - 1) |-> ids[k + 1]]

\* a faulty variant of already_mapped: the early return is missing
already_mapped_never(self, col) == FALSE

\* `if col in self.column_maps: return`
already_mapped(self, col) == col \in DOMAIN self.column_maps

\* a faulty variant of split_ids: the test ids are taken first
split_ids_test_first(self, col) ==
    unique(Column(self.test, col) \o Column(self.train, col))

\* pd.concat((self.train[col], self.test[col])).unique()
split_ids(self, col) == unique(Column(self.train, col) \o Column(self.test, col))

\* self.dataset[col].unique()
dataset_ids(self, col) == unique(Column(self.dataset, col))

\* PandasTrainTestSplit.map_column_to_index(col)
PandasTrainTestSplit_map_column_to_index(self, col) ==
    IF already_mapped(self, col) THEN Ok(self)
    ELSE IF col \notin self.train.cols \/ col \notin self.test.cols
    THEN Raise(self, "KeyError")
    ELSE LET ids == split_ids(self, col)
             m   == idmap(ids)
         IN  Ok([self EXCEPT
                 !.train = SetColumn(@, col, apply(Column(@, col), m)),
                 !.test = SetColumn(@, col, apply(Column(@, col), m)),
                 !.column_maps = PutKey(@, col, reverse_map(ids))])

\* PandasFullDataset.map_column_to_index(col)
PandasFullDataset_map_column_to_index(self, col) ==
    IF already_mapped(self, col) THEN Ok(self)
    ELSE IF col \notin self.dataset.cols THEN Raise(self, "KeyError")
    ELSE LET ids == dataset_ids(self, col)
             m   == idmap(ids)
         IN  Ok([self EXCEPT
                 !.dataset = SetColumn(@, col, apply(Column(@, col), m)),
                 !.column_maps = PutKey(@, col, reverse_map(ids))])

\* every cell of df[col] is a key of m
AllKeys(df, col, m) == \A i \in 1..Len(df.rows) : df.rows[i][col] \in DOMAIN m

\* the outcome of df[col].apply(lambda _id: reverse_map[_id]) when
\* reverse_map was never bound: KeyError for a missing column, NameError at
\* the first row, nothing for an empty table
UnboundApply(df, col) ==
    IF col \notin df.cols THEN "KeyError"
    ELSE IF Len(df.rows) > 0 THEN "NameError"
    ELSE "none"

\* PandasTrainTestSplit.unmap_column_from_index(col, not_mapped); the
\* method ends at its read of self.dataset, an attribute the class never sets
PandasTrainTestSplit_unmap_column_from_index(self, col, not_mapped) ==
    IF col \notin DOMAIN self.column_maps
    THEN IF not_mapped = "raise" THEN Raise(self, "ValueError")
         ELSE IF UnboundApply(self.train, col) # "none"
         THEN Raise(self, UnboundApply(self.train, col))
         ELSE IF UnboundApply(self.test, col) # "none"
         THEN Raise(self, UnboundApply(self.test, col))
         ELSE Raise(self, "AttributeError")
    ELSE LET rm == self.column_maps[col]
             s1 == [self EXCEPT
                    !.train = SetColumn(@, col, apply(Column(@, col), rm))]
             s2 == [s1 EXCEPT
                    !.test = SetColumn(@, col, apply(Column(@, col), rm))]
         IN  IF col \notin self.train.cols \/ ~AllKeys(self.train, col, rm)
             THEN Raise(self, "KeyError")
             ELSE IF col \notin self.test.cols \/ ~AllKeys(self.test, col, rm)
             THEN Raise(s1, "KeyError")
             ELSE Raise(s2, "AttributeError")

\* PandasFullDataset.unmap_column_from_index(col, not_mapped)
PandasFullDataset_unmap_column_from_index(self, col, not_mapped) ==
    IF col \notin DOMAIN self.column_maps
    THEN IF not_mapped = "raise" THEN Raise(self, "ValueError")
         ELSE IF UnboundApply(self.dataset, col) # "none"
         THEN Raise(self, UnboundApply(self.dataset, col))
         ELSE Raise(self, "KeyError")      \* del self.column_maps[col]
    ELSE LET rm == self.column_maps[col]
         IN  IF col \notin self.dataset.cols \/ ~AllKeys(self.dataset, col, rm)
             THEN Raise(self, "KeyError")
             ELSE Ok([self EXCEPT
                      !.dataset = SetColumn(@, col, apply(Column(@, col), rm)),
                      !.column_maps = DropKey(@, col)])

---------------------------------------------------------------------------
(* Feature removal.                                                        *)

\* PandasTrainTestSplit.remove_feature(name)
PandasTrainTestSplit_remove_feature(self, name) ==
    LET g  == FeatureGuide_remove(self.fguide, name)
        s1 == [self EXCEPT !.fguide = g.fguide]
        s2 == [s1 EXCEPT !.train = pop(@, name)]
        s3 == [s2 EXCEPT !.test = pop(@, name)]
    IN  IF g.err # "none" THEN Raise(self, g.err)
        ELSE IF name \notin self.train.cols THEN Raise(s1, "KeyError")
        ELSE IF name \notin self.test.cols THEN Raise(s2, "KeyError")
        ELSE Ok(s3)

\* PandasFullDataset.remove_feature(name)
PandasFullDataset_remove_feature(self, name) ==
    LET g  == FeatureGuide_remove(self.fguide, name)
        s1 == [self EXCEPT !.fguide = g.fguide]
    IN  IF g.err # "none" THEN Raise(self, g.err)
        ELSE IF name \notin self.dataset.cols THEN Raise(s1, "KeyError")
        ELSE Ok([s1 EXCEPT !.dataset = pop(@, name)])

---------------------------------------------------------------------------
(* Imputation.                                                             *)

allowed == {"drop", "raise", "ignore"}

\* the radicand v of the cells of col: the variance of its fitted scaler
Radicand(self, col) ==
    IF col \in DOMAIN self.scalers /\ self.scalers[col].scaler.fitted
    THEN self.scalers[col].scaler.var_
    ELSE RInt(1)

\* getattr(column, method)()
FillValue(s, method, v) == IF method = "mean" THEN mean(s) ELSE median(s, v)

\* df_column_is_all_null(df, column)
df_column_is_all_null(df, column) ==
    isnull_sum(Column(df, column)) = Len(df.rows)

\* train_column_is_all_null(column)
train_column_is_all_null(self, column) ==
    df_column_is_all_null(self.train, column)

\* PandasFullDataset.column_is_all_null(column)
column_is_all_null(self, column) ==
    df_column_is_all_null(self.dataset, column)

\* verify_columns_in_dataset(columns), on self.train.columns: TRUE when
\* every column is present
PandasTrainTestSplit_verify_columns_in_dataset(self, columns) ==
    \A i \in 1..Len(columns) : columns[i] \in self.train.cols

\* PandasFullDataset.verify_columns_in_dataset(columns)
PandasFullDataset_verify_columns_in_dataset(self, columns) ==
    \A i \in 1..Len(columns) : columns[i] \in self.dataset.cols

\* a faulty variant of the check before the loop: only the first column
\* is looked at
raise_check_first_only(self, columns, all_null) ==
    all_null = "raise" /\ columns # <<>>
    /\ df_column_is_all_null(self.train, columns[1])

\* `if all_null == 'raise': for col in columns: if all null: raise`
PandasTrainTestSplit_raise_check(self, columns, all_null) ==
    all_null = "raise"
    /\ \E i \in 1..Len(columns) : train_column_is_all_null(self, columns[i])

PandasFullDataset_raise_check(self, columns, all_null) ==
    all_null = "raise"
    /\ \E i \in 1..Len(columns) : column_is_all_null(self, columns[i])

\* a faulty variant of train_fill_value: the statistic of train and test
\* together
train_fill_value_leaky(self, col, method) ==
    FillValue(Column(self.train, col) \o Column(self.test, col), method,
              Radicand(self, col))

\* fill_value = getattr(train_column, method)()
train_fill_value(self, col, method) ==
    FillValue(Column(self.train, col), method, Radicand(self, col))

\* the main loop of PandasTrainTestSplit.impute, from columns[i] on.  An
\* all-null column is removed under 'drop'; under any other policy the code
\* logs and goes on to the fill, with the fill value NaN.
RECURSIVE PandasTrainTestSplit_impute_loop(_, _, _, _, _)
PandasTrainTestSplit_impute_loop(self, columns, i, method, all_null) ==
    IF i > Len(columns) THEN Ok(self)
    ELSE LET col == columns[i]
         IN  IF col \notin self.train.cols THEN Raise(self, "KeyError")
             ELSE IF train_column_is_all_null(self, col) /\ all_null = "drop"
             THEN LET r == PandasTrainTestSplit_remove_feature(self, col)
                  IN  IF r.err # "none" THEN r
                      ELSE PandasTrainTestSplit_impute_loop(
                               r.self, columns, i + 1, method, all_null)
             ELSE LET fill_value == train_fill_value(self, col, method)
                      s1 == [self EXCEPT !.train =
                                SetColumn(@, col,
                                    fillna(Column(@, col), fill_value))]
                      s2 == [s1 EXCEPT
                                !.test = SetColumn(@, col,
                                    fillna(Column(@, col), fill_value)),
                                !.imputations = PutKey(@, col, fill_value)]
                  IN  IF col \notin self.test.cols THEN Raise(s1, "KeyError")
                      ELSE PandasTrainTestSplit_impute_loop(
                               s2, columns, i + 1, method, all_null)

\* PandasTrainTestSplit.impute(columns, method, all_null)
PandasTrainTestSplit_impute(self, columns, method, all_null) ==
    IF all_null \notin allowed THEN Raise(self, "ValueError")
    ELSE IF ~PandasTrainTestSplit_verify_columns_in_dataset(self, columns)
    THEN Raise(self, "KeyError")
    ELSE IF PandasTrainTestSplit_raise_check(self, columns, all_null)
    THEN Raise(self, "ValueError")
    ELSE PandasTrainTestSplit_impute_loop(self, columns, 1, method, all_null)

\* the main loop of PandasFullDataset.impute
RECURSIVE PandasFullDataset_impute_loop(_, _, _, _, _)
PandasFullDataset_impute_loop(self, columns, i, method, all_null) ==
    IF i > Len(columns) THEN Ok(self)
    ELSE LET col == columns[i]
         IN  IF col \notin self.dataset.cols THEN Raise(self, "KeyError")
             ELSE IF column_is_all_null(self, col) /\ all_null = "drop"
             THEN LET r == PandasFullDataset_remove_feature(self, col)
                  IN  IF r.err # "none" THEN r
                      ELSE PandasFullDataset_impute_loop(
                               r.self, columns, i + 1, method, all_null)
             ELSE LET fill_value == FillValue(Column(self.dataset, col),
                                              method, Radicand(self, col))
                      s1 == [self EXCEPT
                                !.dataset = SetColumn(@, col,
                                    fillna(Column(@, col), fill_value)),
                                !.imputations = PutKey(@, col, fill_value)]
                  IN  PandasFullDataset_impute_loop(
                          s1, columns, i + 1, method, all_null)

\* PandasFullDataset.impute(columns, method, all_null)
PandasFullDataset_impute(self, columns, method, all_null) ==
    IF all_null \notin allowed THEN Raise(self, "ValueError")
    ELSE IF ~PandasFullDataset_verify_columns_in_dataset(self, columns)
    THEN Raise(self, "KeyError")
    ELSE IF PandasFullDataset_raise_check(self, columns, all_null)
    THEN Raise(self, "ValueError")
    ELSE PandasFullDataset_impute_loop(self, columns, 1, method, all_null)

(* impute_reals: `for col in columns` runs over self.fguide.real_valueds    *)
(* itself, the OrderedSet that remove_feature(col) removes col from.       *)

\* the end of an iteration over an OrderedSet (the sentinel node)
End == "<end>"

\* position of x in the sequence s without repetition, 0 when absent
IndexOf(s, x) ==
    IF Contains(s, x) THEN CHOOSE i \in 1..Len(s) : s[i] = x ELSE 0

\* the first key `for col in oset` yields
OrderedSet_first(s) == IF s = <<>> THEN End ELSE s[1]

\* a faulty variant of OrderedSet_next: the iteration of a Python list,
\* which goes on at the next position of the set as the body left it
list_next(s, after, key) ==
    IF IndexOf(s, key) + 1 <= Len(after) THEN after[IndexOf(s, key) + 1]
    ELSE End

\* OrderedSet.__iter__, `curr = curr[NEXT]` after the body ran with
\* curr[KEY] = key: s is the set when key was yielded, after the set when
\* the body is done.  The body removes no key but key, and discard(key)
\* leaves the NEXT pointer of the node of key as it was: the iteration goes
\* on at the key that followed key in s.
OrderedSet_next(s, after, key) ==
    IF IndexOf(s, key) < Len(s) THEN s[IndexOf(s, key) + 1] ELSE End

\* the main loop of PandasTrainTestSplit.impute when columns is
\* self.fguide.real_valueds, from the node of col on
RECURSIVE PandasTrainTestSplit_impute_reals_loop(_, _, _, _)
PandasTrainTestSplit_impute_reals_loop(self, col, method, all_null) ==
    IF col = End THEN Ok(self)
    ELSE LET r == PandasTrainTestSplit_impute_loop(
                      self, <<col>>, 1, method, all_null)
         IN  IF r.err # "none" THEN r
             ELSE PandasTrainTestSplit_impute_reals_loop(
                      r.self,
                      OrderedSet_next(self.fguide.real_valueds,
                                      r.self.fguide.real_valueds, col),
                      method, all_null)

\* PandasTrainTestSplit.impute_reals(method, all_null)
PandasTrainTestSplit_impute_reals(self, method, all_null) ==
    LET columns == self.fguide.real_valueds
    IN  IF all_null \notin allowed THEN Raise(self, "ValueError")
        ELSE IF ~PandasTrainTestSplit_verify_columns_in_dataset(self, columns)
        THEN Raise(self, "KeyError")
        ELSE IF PandasTrainTestSplit_raise_check(self, columns, all_null)
        THEN Raise(self, "ValueError")
        ELSE PandasTrainTestSplit_impute_reals_loop(
                 self, OrderedSet_first(columns), method, all_null)

\* the main loop of PandasFullDataset.impute when columns is
\* self.fguide.real_valueds
RECURSIVE PandasFullDataset_impute_reals_loop(_, _, _, _)
PandasFullDataset_impute_reals_loop(self, col, method, all_null) ==
    IF col = End THEN Ok(self)
    ELSE LET r == PandasFullDataset_impute_loop(
                      self, <<col>>, 1, method, all_null)
         IN  IF r.err # "none" THEN r
             ELSE PandasFullDataset_impute_reals_loop(
                      r.self,
                      OrderedSet_next(self.fguide.real_valueds,
                                      r.self.fguide.real_valueds, col),
                      method, all_null)

\* PandasFullDataset.impute_reals(method, all_null)
PandasFullDataset_impute_reals(self, method, all_null) ==
    LET columns == self.fguide.real_valueds
    IN  IF all_null \notin allowed THEN Raise(self, "ValueError")
        ELSE IF ~PandasFullDataset_verify_columns_in_dataset(self, columns)
        THEN Raise(self, "KeyError")
        ELSE IF PandasFullDataset_raise_check(self, columns, all_null)
        THEN Raise(self, "ValueError")
        ELSE PandasFullDataset_impute_reals_loop(
                 self, OrderedSet_first(columns), method, all_null)

---------------------------------------------------------------------------
(* Z-score scaling.  self.scalers[col] is the tuple (scaler, scaled), kept *)
(* as [scaler |-> StandardScaler, scaled |-> flag].                        *)

\* preprocessing.StandardScaler(), not fitted yet
StandardScaler == [fitted |-> FALSE, mean_ |-> RInt(0), var_ |-> RInt(0)]

HasNaN(s) == \E i \in 1..Len(s) : isnull(s[i])

RECURSIVE RSum(_)
RSum(s) == IF s = <<>> THEN RInt(0) ELSE RAdd(Head(s), RSum(Tail(s)))

\* StandardScaler.fit on a column without NaN: the mean and the population
\* variance of the cells (rational at the first fit of a column)
fit(xs) ==
    LET n  == Len(xs)
        mu == RDiv(RSum([i \in 1..n |-> xs[i].a]), RInt(n))
        sq == [i \in 1..n |-> RMul(RSub(xs[i].a, mu), RSub(xs[i].a, mu))]
    IN  [fitted |-> TRUE, mean_ |-> mu, var_ |-> RDiv(RSum(sq), RInt(n))]

\* (x - mean_) / std_, std_ = sqrt(var_), 1 for a zero variance
transform(x, sc) ==
    IF RSign(sc.var_) = 0
    THEN [a |-> RSub(x.a, sc.mean_), b |-> x.b]
    ELSE IF RIsSquare(sc.var_)
    THEN [a |-> RDiv(RSub(x.a, sc.mean_), RSqrt(sc.var_)),
          b |-> RDiv(x.b, RSqrt(sc.var_))]
    ELSE [a |-> x.b, b |-> RDiv(RSub(x.a, sc.mean_), sc.var_)]

\* y * std_ + mean_; NaN stays NaN
inverse_transform(y, sc) ==
    IF isnull(y) THEN NaN
    ELSE IF RSign(sc.var_) = 0
    THEN [a |-> RAdd(y.a, sc.mean_), b |-> y.b]
    ELSE IF RIsSquare(sc.var_)
    THEN [a |-> RAdd(RMul(y.a, RSqrt(sc.var_)), sc.mean_),
          b |-> RMul(y.b, RSqrt(sc.var_))]
    ELSE [a |-> RAdd(RMul(y.b, sc.var_), sc.mean_), b |-> y.a]

MapSeq(s, f(_)) == [i \in 1..Len(s) |-> f(s[i])]

\* `if col in self.scalers: scaler, scaled = self.scalers[col]` else a new
\* scaler and False
scaler_entry(self, col) ==
    IF col \in DOMAIN self.scalers THEN self.scalers[col]
    ELSE [scaler |-> StandardScaler, scaled |-> FALSE]

\* a faulty variant of is_scaled: the flag is not looked at
is_scaled_never(self, col) == FALSE

\* the flag tested by `if not scaled`
is_scaled(self, col) == scaler_entry(self, col).scaled

\* the parameters scaler.fit_transform(self.train[[col]]) fits
train_fit(self, col) == fit(Column(self.train, col))

\* the loop of PandasTrainTestSplit.scale, from columns[i] on.  The flag is
\* stored before the fit; the scaler rejects NaN and an empty table.
RECURSIVE PandasTrainTestSplit_scale_loop(_, _, _)
PandasTrainTestSplit_scale_loop(self, columns, i) ==
    IF i > Len(columns) THEN Ok(self)
    ELSE LET col == columns[i]
             e   == scaler_entry(self, col)
             s0  == [self EXCEPT !.scalers =
                        PutKey(@, col, [scaler |-> e.scaler, scaled |-> TRUE])]
             sc  == train_fit(self, col)
             s1  == [s0 EXCEPT
                        !.scalers = PutKey(@, col,
                                        [scaler |-> sc, scaled |-> TRUE]),
                        !.train = SetColumn(@, col,
                            MapSeq(Column(@, col),
                                   LAMBDA x : transform(x, sc)))]
             s2  == [s1 EXCEPT !.test = SetColumn(@, col,
                            MapSeq(Column(@, col),
                                   LAMBDA x : transform(x, sc)))]
         IN  IF is_scaled(self, col)
             THEN PandasTrainTestSplit_scale_loop(self, columns, i + 1)
             ELSE IF HasNaN(Column(self.train, col))
             THEN Raise(s0, "ValueError")
             ELSE IF col \notin self.test.cols THEN Raise(s1, "KeyError")
             ELSE IF Len(self.test.rows) = 0 \/ HasNaN(Column(self.test, col))
             THEN Raise(s1, "ValueError")
             ELSE PandasTrainTestSplit_scale_loop(s2, columns, i + 1)

\* PandasTrainTestSplit.scale(columns)
PandasTrainTestSplit_scale(self, columns) ==
    IF ~PandasTrainTestSplit_verify_columns_in_dataset(self, columns)
    THEN Raise(self, "KeyError")
    ELSE PandasTrainTestSplit_scale_loop(self, columns, 1)

\* the loop of PandasTrainTestSplit.unscale.  `self.scalers[col][1] = False`
\* assigns to an item of a tuple: TypeError, after both tables were
\* converted back and with the flag still set.
RECURSIVE PandasTrainTestSplit_unscale_loop(_, _, _)
PandasTrainTestSplit_unscale_loop(self, columns, i) ==
    IF i > Len(columns) THEN Ok(self)
    ELSE LET col == columns[i]
             sc  == self.scalers[col].scaler
             s1  == [self EXCEPT !.train = SetColumn(@, col,
                        MapSeq(Column(@, col),
                               LAMBDA y : inverse_transform(y, sc)))]
             s2  == [s1 EXCEPT !.test = SetColumn(@, col,
                        MapSeq(Column(@, col),
                               LAMBDA y : inverse_transform(y, sc)))]
         IN  IF ~(col \in DOMAIN self.scalers /\ self.scalers[col].scaled)
             THEN PandasTrainTestSplit_unscale_loop(self, columns, i + 1)
             ELSE IF ~sc.fitted THEN Raise(self, "NotFittedError")
             ELSE IF col \notin self.test.cols THEN Raise(s1, "KeyError")
             ELSE Raise(s2, "TypeError")

\* PandasTrainTestSplit.unscale(columns)
PandasTrainTestSplit_unscale(self, columns) ==
    IF ~PandasTrainTestSplit_verify_columns_in_dataset(self, columns)
    THEN Raise(self, "KeyError")
    ELSE PandasTrainTestSplit_unscale_loop(self, columns, 1)

\* the loop of PandasFullDataset.scale
RECURSIVE PandasFullDataset_scale_loop(_, _, _)
PandasFullDataset_scale_loop(self, columns, i) ==
    IF i > Len(columns) THEN Ok(self)
    ELSE LET col == columns[i]
             e   == scaler_entry(self, col)
             s0  == [self EXCEPT !.scalers =
                        PutKey(@, col, [scaler |-> e.scaler, scaled |-> TRUE])]
             sc  == fit(Column(self.dataset, col))
             s1  == [s0 EXCEPT
                        !.scalers = PutKey(@, col,
                                        [scaler |-> sc, scaled |-> TRUE]),
                        !.dataset = SetColumn(@, col,
                            MapSeq(Column(@, col),
                                   LAMBDA x : transform(x, sc)))]
         IN  IF is_scaled(self, col)
             THEN PandasFullDataset_scale_loop(self, columns, i + 1)
             ELSE IF Len(self.dataset.rows) = 0
                     \/ HasNaN(Column(self.dataset, col))
             THEN Raise(s0, "ValueError")
             ELSE PandasFullDataset_scale_loop(s1, columns, i + 1)

\* PandasFullDataset.scale(columns)
PandasFullDataset_scale(self, columns) ==
    IF ~PandasFullDataset_verify_columns_in_dataset(self, columns)
    THEN Raise(self, "KeyError")
    ELSE PandasFullDataset_scale_loop(self, columns, 1)

\* the loop of PandasFullDataset.unscale, with the same tuple assignment
RECURSIVE PandasFullDataset_unscale_loop(_, _, _)
PandasFullDataset_unscale_loop(self, columns, i) ==
    IF i > Len(columns) THEN Ok(self)
    ELSE LET col == columns[i]
             sc  == self.scalers[col].scaler
             s1  == [self EXCEPT !.dataset = SetColumn(@, col,
                        MapSeq(Column(@, col),
                               LAMBDA y : inverse_transform(y, sc)))]
         IN  IF ~(col \in DOMAIN self.scalers /\ self.scalers[col].scaled)
             THEN PandasFullDataset_unscale_loop(self, columns, i + 1)
             ELSE IF ~sc.fitted THEN Raise(self, "NotFittedError")
             ELSE Raise(s1, "TypeError")

\* PandasFullDataset.unscale(columns)
PandasFullDataset_unscale(self, columns) ==
    IF ~PandasFullDataset_verify_columns_in_dataset(self, columns)
    THEN Raise(self, "KeyError")
    ELSE PandasFullDataset_unscale_loop(self, columns, 1)

---------------------------------------------------------------------------
(* Cold-start removal.                                                     *)

\* a faulty variant of setdiff1d: the arguments swapped
setdiff1d_swapped(xs, ys) == Range(ys) \ Range(xs)

\* np.setdiff1d(self.test[key], self.train[key])
setdiff1d(xs, ys) == Range(xs) \ Range(ys)

\* the loop of remove_cold_start over the entity columns
RECURSIVE remove_cold_start_loop(_, _, _)
remove_cold_start_loop(self, entities, i) ==
    IF i > Len(entities) THEN Ok(self)
    ELSE LET key  == entities[i]
             diff == setdiff1d(Column(self.test, key), Column(self.train, key))
             keep == {j \in 1..Len(self.test.rows) :
                         self.test.rows[j][key] \notin diff}
         IN  IF key \notin self.test.cols \/ key \notin self.train.cols
             THEN Raise(self, "KeyError")
             ELSE remove_cold_start_loop(
                      [self EXCEPT !.test.rows = SelectRows(@, keep, 1)],
                      entities, i + 1)

\* PandasTrainTestSplit.remove_cold_start(entities); "None" stands for the
\* default argument
PandasTrainTestSplit_remove_cold_start(self, entities) ==
    remove_cold_start_loop(
        self, IF entities = "None" THEN self.fguide.entities ELSE entities, 1)

---------------------------------------------------------------------------
(* One-hot encoding.  A matrix is the record [ncols |-> width, rows |->     *)
(* sequence of rows], a row being a sequence of real cells (the encoder's  *)
(* dtype is float64).  A label '%s-%d' % (column, idx) is kept as the pair *)
(* <<column, idx>> and a plain column name in a feature map as <<column>>. *)

Matrix(ncols, rows) == [ncols |-> ncols, rows |-> rows]

\* m[lo:hi], rows lo+1..hi
RowSlice(m, lo, hi) == Matrix(m.ncols, SubSeq(m.rows, lo + 1, hi))

Max(S) == CHOOSE x \in S : \A y \in S : y <= x

RECURSIVE SumSeq(_)
SumSeq(s) == IF s = <<>> THEN 0 ELSE Head(s) + SumSeq(Tail(s))

\* the members of a set of integers in ascending order (np.sort)
RECURSIVE SortSet(_)
SortSet(S) ==
    IF S = {} THEN <<>>
    ELSE LET m == CHOOSE x \in S : \A y \in S : x <= y
         IN  <<m>> \o SortSet(S \ {m})

\* the concatenation of the sequences s[1], ..., s[Len(s)]
RECURSIVE Flatten(_)
Flatten(s) ==
    IF s = <<>> THEN <<>>
    ELSE Flatten(SubSeq(s, 1, Len(s) - 1)) \o s[Len(s)]

\* df[columns].values: row i as the sequence of its cells in columns
Values(df, columns) ==
    [i \in 1..Len(df.rows) |->
        [j \in 1..Len(columns) |-> df.rows[i][columns[j]]]]

\* a faulty variant of both_sets: the encoder sees the training rows only
both_sets_train_only(self, columns) == Values(self.train, columns)

\* pd.concat((self.train[columns], self.test[columns]))
both_sets(self, columns) ==
    Values(self.train, columns) \o Values(self.test, columns)

\* OneHotEncoder.fit (n_values='auto'): one more than the largest value of
\* each column
n_values_(X, ncols) ==
    [j \in 1..ncols |-> Max({X[i][j] : i \in 1..Len(X)}) + 1]

\* feature_indices_: where the block of each column starts, from 0
feature_indices_(nv) ==
    [j \in 1..(Len(nv) + 1) |-> SumSeq(SubSeq(nv, 1, j - 1))]

\* active_features_: the positions some row of the fitted data sets
active_features_(X, ncols) ==
    LET fi == feature_indices_(n_values_(X, ncols))
    IN  SortSet({fi[j] + X[i][j] : i \in 1..Len(X), j \in 1..ncols})

\* OneHotEncoder.fit_transform(X).sorted_indices(): the rows of X encoded
\* and restricted to the active features
fit_transform(X, ncols) ==
    LET fi  == feature_indices_(n_values_(X, ncols))
        act == active_features_(X, ncols)
    IN  Matrix(Len(act),
               [i \in 1..Len(X) |->
                   [k \in 1..Len(act) |->
                       IF \E j \in 1..ncols : fi[j] + X[i][j] = act[k]
                       THEN Real(1) ELSE Real(0)]])

\* '%s-%d' % (column, idx)
format(column, idx) == <<column, idx>>

\* the feature map of one_hot_encode: for each column, a label for each of
\* np.sort(both_sets[column].unique())
one_hot_fmap(X, columns) ==
    LET labels(j) ==
            LET unique_elements == SortSet({X[i][j] : i \in 1..Len(X)})
            IN  [k \in 1..Len(unique_elements) |->
                    format(columns[j], unique_elements[k])]
    IN  Flatten([j \in 1..Len(columns) |-> labels(j)])

\* PandasTrainTestSplit.one_hot_encode(columns); the encoder rejects a
\* negative value
PandasTrainTestSplit_one_hot_encode(self, columns) ==
    IF columns = <<>> THEN Return(self, None)
    ELSE IF ~(Range(columns) \subseteq self.train.cols \cap self.test.cols)
    THEN Raise(self, "KeyError")
    ELSE LET X        == both_sets(self, columns)
             encoded  == fit_transform(X, Len(columns))
             nd_train == Len(self.train.rows)
         IN  IF \E i \in 1..Len(X), j \in 1..Len(columns) : X[i][j] < 0
             THEN Raise(self, "ValueError")
             ELSE Return(self,
                      [train_enc |-> RowSlice(encoded, 0, nd_train),
                       test_enc |-> RowSlice(encoded, nd_train, Len(X)),
                       fmap |-> one_hot_fmap(X, columns),
                       encoder |-> [n_values_ |-> n_values_(X, Len(columns))]])

---------------------------------------------------------------------------
(* preprocess.                                                             *)

\* the spelling of the column names the model uses
chars(name) ==
    CASE name = "grade" -> <<"g", "r", "a", "d", "e">>
      [] name = "student" -> <<"s", "t", "u", "d", "e", "n", "t">>
      [] name = "course" -> <<"c", "o", "u", "r", "s", "e">>
      [] name = "major" -> <<"m", "a", "j", "o", "r">>
      [] name = "course_level" ->
            <<"c", "o", "u", "r", "s", "e", "_", "l", "e", "v", "e", "l">>
      [] name = "gpa" -> <<"g", "p", "a">>
      [] name = "age" -> <<"a", "g", "e">>

\* '%d' % n, n >= 0
RECURSIVE decimal(_)
decimal(n) ==
    LET digit == <<"0", "1", "2", "3", "4", "5", "6", "7", "8", "9">>
    IN  IF n < 10 THEN <<digit[n + 1]>>
        ELSE decimal(n \div 10) \o <<digit[(n % 10) + 1]>>

\* the characters of an entry of a feature map
text(entry) ==
    IF Len(entry) = 2 THEN chars(entry[1]) \o <<"-">> \o decimal(entry[2])
    ELSE chars(entry[1])

\* `a in b` for two strings
IsSubstring(a, b) ==
    \E i \in 0..(Len(b) - Len(a)) : SubSeq(b, i + 1, i + Len(a)) = a


\* scipy.sparse.hstack((A, B))
hstack(A, B) ==
    Matrix(A.ncols + B.ncols, [i \in 1..Len(A.rows) |-> A.rows[i] \o B.rows[i]])

\* df[list(names)].values for real-valued columns
reals_values(df, names) == Matrix(Len(names), Values(df, names))

\* df[labels].values for index-mapped entity columns, as it is stacked onto
\* a float matrix
ents_values(df, labels) ==
    Matrix(Len(labels),
           [i \in 1..Len(df.rows) |->
               [j \in 1..Len(labels) |-> Real(df.rows[i][labels[j]])]])

\* np.squeeze(df[[target]].values): the column, a scalar for a single row
squeeze(col) == IF Len(col) = 1 THEN col[1] ELSE col

\* train_eids / test_eids: the entity columns of df
eids(df, entities) ==
    DataFrame(Range(entities),
              [i \in 1..Len(df.rows) |->
                  [c \in Range(entities) |-> df.rows[i][c]]])

\* `for entity in self.fguide.entities: self.map_column_to_index(entity)`
RECURSIVE map_entities_loop(_, _, _)
map_entities_loop(self, entities, i) ==
    IF i > Len(entities) THEN Ok(self)
    ELSE LET r == PandasTrainTestSplit_map_column_to_index(self, entities[i])
         IN  IF r.err # "none" THEN r
             ELSE map_entities_loop(r.self, entities, i + 1)

\* PandasTrainTestSplit.scale_reals()
PandasTrainTestSplit_scale_reals(self) ==
    IF self.fguide.real_valueds # <<>>
    THEN PandasTrainTestSplit_scale(self, self.fguide.real_valueds)
    ELSE Ok(self)

\* the value of i after `for name, i in pairs[::-1]: if last_ent in name:
\* break`, pairs = zip(fmap, range(nf_ohc)), fmap not empty: the index of
\* the last label that has last_ent in it, 0 when the loop ran to its end
last_ent_index(fmap, last_ent) ==
    LET hits == {k \in 1..Len(fmap) :
                    IsSubstring(chars(last_ent), text(fmap[k]))}
    IN  IF hits = {} THEN 0 ELSE Max(hits) - 1

\* a faulty variant of only_reals: the test is missing
only_reals_never(use_ents, use_cats) == FALSE

\* only_reals = not use_ents and not use_cats
only_reals(use_ents, use_cats) == ~use_ents /\ ~use_cats

\* preprocess from the one-hot encoding on (lines 1228-1320); train_eids and
\* test_eids are the entity columns captured after the index mapping
preprocess_assemble(self, use_ents, ohc_ents, use_cats) ==
    LET entities == self.fguide.entities
        reals    == self.fguide.real_valueds
        target   == self.fguide.target
        to_ohc   == OrderedSet_or(
                        IF use_ents /\ ohc_ents THEN entities ELSE <<>>,
                        self.fguide.categoricals)
        bound    == to_ohc # <<>>       \* train_enc_cats, test_enc_cats set
        enc      == PandasTrainTestSplit_one_hot_encode(self, to_ohc)
        fmap0    == IF bound THEN enc.ret.fmap ELSE <<>>
        nf_ohc   == Len(fmap0)
        prepend  == use_ents /\ ~ohc_ents
        nf_ents  == IF use_ents
                    THEN IF ohc_ents
                         THEN last_ent_index(fmap0, entities[Len(entities)]) + 1
                         ELSE Len(entities)
                    ELSE 0
        labels   == [j \in 1..Len(entities) |-> <<entities[j]>>]
        fmap1    == IF prepend THEN labels \o fmap0 ELSE fmap0
        fmap     == fmap1 \o [j \in 1..Len(reals) |-> <<reals[j]>>]
        cats(df, m) == IF prepend THEN hstack(ents_values(df, entities), m)
                       ELSE m
        X(df, m) == IF Len(reals) = 0 THEN cats(df, m)
                    ELSE IF only_reals(use_ents, use_cats)
                    THEN reals_values(df, reals)
                    ELSE hstack(cats(df, m), reals_values(df, reals))
    IN  IF bound /\ enc.err # "none" THEN Raise(self, enc.err)
        ELSE IF use_ents /\ ohc_ents /\ entities = <<>>
        THEN Raise(self, "IndexError")
        ELSE IF prepend /\ ~(Range(entities) \subseteq self.train.cols)
        THEN Raise(self, "KeyError")
        ELSE IF prepend /\ ~bound THEN Raise(self, "UnboundLocalError")
        ELSE IF prepend /\ ~(Range(entities) \subseteq self.test.cols)
        THEN Raise(self, "KeyError")
        ELSE IF ~(Range(reals) \subseteq self.train.cols)
        THEN Raise(self, "KeyError")
        ELSE IF Len(reals) = 0 /\ only_reals(use_ents, use_cats)
        THEN Raise(self, "ValueError")
        ELSE IF ~bound /\ ~(Len(reals) # 0 /\ only_reals(use_ents, use_cats))
        THEN Raise(self, "UnboundLocalError")
        ELSE IF ~(Range(reals) \subseteq self.test.cols)
        THEN Raise(self, "KeyError")
        ELSE IF target \notin self.train.cols \cap self.test.cols
        THEN Raise(self, "KeyError")
        ELSE Return(self,
                 [train_X |-> X(self.train,
                                IF bound THEN enc.ret.train_enc ELSE None),
                  train_y |-> squeeze(Column(self.train, target)),
                  train_eids |-> eids(self.train, entities),
                  test_X |-> X(self.test,
                               IF bound THEN enc.ret.test_enc ELSE None),
                  test_y |-> squeeze(Column(self.test, target)),
                  test_eids |-> eids(self.test, entities),
                  fmap |-> fmap,
                  nf_ents |-> nf_ents])

\* lines 1209-1225 of preprocess: cold-start removal, entity index maps,
\* imputation and scaling, each on the object as the step before left it
preprocess_steps(self, kwargs) ==
    LET cold(r0) == IF kwargs.remove_cold_start
                    THEN PandasTrainTestSplit_remove_cold_start(r0.self, "None")
                    ELSE r0
        map(r1) == IF r1.err # "none" THEN r1
                   ELSE map_entities_loop(r1.self, r1.self.fguide.entities, 1)
        impute(r2) == IF r2.err # "none" THEN r2
                      ELSE PandasTrainTestSplit_impute_reals(
                               r2.self, "median", kwargs.all_null)
        scale(r3) == IF r3.err # "none" \/ ~kwargs.normalize THEN r3
                     ELSE PandasTrainTestSplit_scale_reals(r3.self)
        s1 == {cold(r0) : r0 \in {Ok(self)}}
        s2 == {map(r1) : r1 \in s1}
        s3 == {impute(r2) : r2 \in s2}
        s4 == {scale(r3) : r3 \in s3}
    IN  CHOOSE r4 \in s4 : TRUE

\* PandasTrainTestSplit.preprocess(**kwargs), kwargs being the record of
\* all_null, normalize, use_ents, ohc_ents, use_cats and remove_cold_start;
\* the arguments impute and ohc_cats are not read by the code
PandasTrainTestSplit_preprocess(self, kwargs) ==
    LET assemble(r4) == IF r4.err # "none" THEN Raise(r4.self, r4.err)
                        ELSE preprocess_assemble(
                                 r4.self, kwargs.use_ents, kwargs.ohc_ents,
                                 kwargs.use_cats)
    IN  CHOOSE out \in {assemble(r4) : r4 \in {preprocess_steps(self, kwargs)}} : TRUE

---------------------------------------------------------------------------
(* Construction.                                                           *)

NewSelf(fg) ==
    [fguide |-> fg, dataset |-> NoTable, train |-> NoTable, test |-> NoTable,
     column_maps |-> EmptyMap, imputations |-> EmptyMap, scalers |-> EmptyMap]

\* the sanity checks of PandasTrainTestSplit.__init__: the exception raised,
\* or "none"; the column check compares the numbers of columns
PandasTrainTestSplit_init_check(train_df, test_df) ==
    IF Len(train_df.rows) = 0 THEN "ValueError"
    ELSE IF Len(test_df.rows) = 0 THEN "ValueError"
    ELSE IF Cardinality(train_df.cols) # Cardinality(test_df.cols)
    THEN "ValueError"
    ELSE "none"

\* PandasTrainTestSplit.__init__(train_df, test_df, fguide)
PandasTrainTestSplit_init(train_df, test_df, fg) ==
    IF PandasTrainTestSplit_init_check(train_df, test_df) # "none"
    THEN Raise(NewSelf(fg), PandasTrainTestSplit_init_check(train_df, test_df))
    ELSE Ok([NewSelf(fg) EXCEPT !.train = train_df, !.test = test_df])

\* PandasFullDataset.__init__, the table already read
PandasFullDataset_init(df, fg) == Ok([NewSelf(fg) EXCEPT !.dataset = df])


\* `for entity in self.fguide.entities: self.map_column_to_index(entity)`
\* of PandasFullDataset.preprocess
RECURSIVE PandasFullDataset_map_entities_loop(_, _, _)
PandasFullDataset_map_entities_loop(self, entities, i) ==
    IF i > Len(entities) THEN Ok(self)
    ELSE LET r == PandasFullDataset_map_column_to_index(self, entities[i])
         IN  IF r.err # "none" THEN r
             ELSE PandasFullDataset_map_entities_loop(r.self, entities, i + 1)

\* PandasFullDataset.scale_reals()
PandasFullDataset_scale_reals(self) ==
    IF self.fguide.real_valueds # <<>>
    THEN PandasFullDataset_scale(self, self.fguide.real_valueds)
    ELSE Ok(self)

\* zip(a, range(lo, hi + 1)): pairs up to the end of the shorter
zip_range(a, lo, hi) ==
    [k \in 1..(IF Len(a) <= hi + 1 - lo THEN Len(a)
               ELSE IF hi + 1 - lo < 0 THEN 0 ELSE hi + 1 - lo) |->
        <<a[k], lo + k - 1>>]

\* dict(pairs)[key], the key being in the pairs: the value of its last pair
dict_get(pairs, key) ==
    pairs[Max({k \in 1..Len(pairs) : pairs[k][1] = key})][2]

\* the (name, index) pairs of PandasFullDataset.preprocess: the cumulated
\* numbers of distinct values of the encoded columns, then the real-valued
\* columns numbered from the last of them on
full_indices(cats_and_ents, all_cats, reals, nf) ==
    LET counts == [j \in 1..Len(cats_and_ents) |->
                      Cardinality({all_cats[i][j] : i \in 1..Len(all_cats)})]
        cats   == [j \in 1..Len(cats_and_ents) |->
                      <<cats_and_ents[j], SumSeq(SubSeq(counts, 1, j))>>]
        last_cat_index == SumSeq(counts)
    IN  cats \o zip_range(reals, last_cat_index + 1, nf)

\* PandasFullDataset.preprocess from the one-hot encoding on (lines
\* 659-708); the encoder refuses a table without rows or columns and a
\* negative value
full_preprocess_assemble(self) ==
    LET entities == self.fguide.entities
        reals    == self.fguide.real_valueds
        cats_and_ents == OrderedSet_or(entities, self.fguide.categoricals)
        result(all_cats, encoded_cats, indices) ==
            Return(self,
                [X |-> IF Len(reals) # 0
                       THEN hstack(encoded_cats,
                                   reals_values(self.dataset, reals))
                       ELSE encoded_cats,
                 y |-> Column(self.dataset, self.fguide.target),
                 eids |-> [c \in Range(entities) |->
                              Column(self.dataset, c)],
                 indices |-> indices,
                 nents |-> dict_get(indices, entities[Len(entities)])])
        encode(all_cats) ==
            CHOOSE out \in
                {result(all_cats, encoded_cats,
                        CHOOSE ix \in
                            {full_indices(cats_and_ents, all_cats, reals,
                                          encoded_cats.ncols + Len(reals))} :
                            TRUE) :
                    encoded_cats \in
                        {fit_transform(all_cats, Len(cats_and_ents))}} : TRUE
    IN  IF ~(Range(cats_and_ents) \subseteq self.dataset.cols)
        THEN Raise(self, "KeyError")
        ELSE IF cats_and_ents = <<>> \/ Len(self.dataset.rows) = 0
        THEN Raise(self, "ValueError")
        ELSE IF \E i \in 1..Len(self.dataset.rows),
                   j \in 1..Len(cats_and_ents) :
                   self.dataset.rows[i][cats_and_ents[j]] < 0
        THEN Raise(self, "ValueError")
        ELSE IF entities = <<>> THEN Raise(self, "IndexError")
        ELSE IF ~(Range(reals) \subseteq self.dataset.cols)
                \/ self.fguide.target \notin self.dataset.cols
        THEN Raise(self, "KeyError")
        ELSE CHOOSE out \in
                 {encode(all_cats) :
                     all_cats \in {Values(self.dataset, cats_and_ents)}} : TRUE

\* PandasFullDataset.preprocess(impute); the argument is not read, and
\* impute_reals() runs with its defaults, method 'median' and all_null
\* 'raise'
PandasFullDataset_preprocess(self) ==
    LET map(r1) == PandasFullDataset_map_entities_loop(
                       r1.self, r1.self.fguide.entities, 1)
        impute(r2) == IF r2.err # "none" THEN r2
                      ELSE PandasFullDataset_impute_reals(
                               r2.self, "median", "raise")
        scale(r3) == IF r3.err # "none" THEN r3
                     ELSE PandasFullDataset_scale_reals(r3.self)
        assemble(r4) == IF r4.err # "none" THEN Raise(r4.self, r4.err)
                        ELSE full_preprocess_assemble(r4.self)
        s2 == {map(r1) : r1 \in {Ok(self)}}
        s3 == {impute(r2) : r2 \in s2}
        s4 == {scale(r3) : r3 \in s3}
    IN  CHOOSE out \in {assemble(r4) : r4 \in s4} : TRUE

---------------------------------------------------------------------------
(* Splitting a dataset.  A split made by the splitter is the record of its *)
(* attributes, with its guide held by reference: Own(g) is a guide object  *)
(* of its own, Shared the guide object of the parent dataset.              *)

Own(v) == [own |-> TRUE, val |-> v]
Shared == [own |-> FALSE]

\* Dataset.ops applied to a cell and a value
cmp(op, x, v) ==
    CASE op = "lt" -> x < v
      [] op = "gt" -> x > v
      [] op = "le" -> x <= v
      [] op = "ge" -> x >= v
      [] op = "eq" -> x = v
      [] op = "ne" -> x # v

Min(S) == CHOOSE x \in S : \A y \in S : x <= y

\* df.loc[mask], a new table; mask is the set of the row numbers kept
loc(df, mask) == DataFrame(df.cols, SelectRows(df.rows, mask, 1))

\* df.reset_index(drop=True)[usecols], a new table (the caller has checked
\* the names)
select(df, usecols) ==
    DataFrame(usecols,
              [i \in 1..Len(df.rows) |-> [c \in usecols |-> df.rows[i][c]]])

\* a faulty variant of deepcopy: the object itself is handed on
deepcopy_none(ref, value) == ref

\* copy.deepcopy(fguide): a new object with the same sections
deepcopy(ref, value) == Own(value)

\* PandasTrainTestSplit.from_dfs(train_df, test_df, fguide), fguide being
\* the guide object of the parent; with an index column, set_index moves it
\* out of the columns that [usecols] then asks for
from_dfs(train_df, test_df, fg) ==
    LET usecols   == all_names(fg)
        index_col == index_from_feature_guide(fg)
        train_    == select(train_df, usecols)
        test_     == select(test_df, usecols)
        r         == PandasTrainTestSplit_init(train_, test_, fg)
    IN  IF index_col # <<>> \/ ~(usecols \subseteq train_df.cols)
           \/ ~(usecols \subseteq test_df.cols)
        THEN [split |-> None, err |-> "KeyError"]
        ELSE IF r.err # "none" THEN [split |-> None, err |-> r.err]
        ELSE [split |-> [fguide |-> deepcopy(Shared, fg),
                         train |-> r.self.train,
                         test |-> r.self.test,
                         column_maps |-> r.self.column_maps,
                         imputations |-> r.self.imputations,
                         scalers |-> r.self.scalers],
              err |-> "none"]

\* PandasFullDataset.split(train_mask, test_mask)
PandasFullDataset_split(self, train_mask, test_mask) ==
    from_dfs(loc(self.dataset, train_mask), loc(self.dataset, test_mask),
             self.fguide)

\* the window of a splitter: <<>> for None, <<w>> for the number w
NoWindow == <<>>

\* PandasDatasetSplitter.__init__(dataset, colname, train_cmp, test_cmp,
\* window); the dataset is the parent object
PandasDatasetSplitter_init(colname, train_cmp, test_cmp, window) ==
    [colname |-> colname, train_cmp |-> train_cmp, test_cmp |-> test_cmp,
     window |-> window]

\* PandasFullDataset.split_loop(col, train_cmp, test_cmp, window)
PandasFullDataset_split_loop(col, train_cmp, test_cmp, window) ==
    PandasDatasetSplitter_init(col, train_cmp, test_cmp, NoWindow)

\* PandasDatasetSplitter.column (the caller has checked the name)
column(self, sp) == Column(self.dataset, sp.colname)

\* the rows at which the cell of the column col satisfies op against val
mask(col, op, val) == {i \in 1..Len(col) : cmp(op, col[i], val)}

\* PandasDatasetSplitter.unique_values
unique_values(self, sp) == unique(column(self, sp))

\* the split __iter__ makes for val; col and global_min_val are the locals
\* of the generator, self is the parent as it is now
iter_split(self, sp, col, global_min_val, val) ==
    LET min_val == IF sp.window = NoWindow THEN global_min_val
                   ELSE val - sp.window[1]
        constraint == mask(col, "ge", min_val)
        train_mask == mask(col, sp.train_cmp, val) \cap constraint
        test_mask  == mask(col, sp.test_cmp, val)
    IN  PandasFullDataset_split(self, train_mask, test_mask)

\* the split iteritems and __getitem__ make for val
item_split(self, sp, col, val) ==
    PandasFullDataset_split(
        self, mask(col, sp.train_cmp, val), mask(col, sp.test_cmp, val))

\* the generator object a call of __iter__ or iteritems(errors) returns: no
\* line of the body has run; column, vals (the array the for loop walks) and
\* global_min_val are its locals, i the position of the loop, err the
\* exception that ended it
Generator(name, errors) ==
    [name |-> name, errors |-> errors, started |-> FALSE, done |-> FALSE,
     err |-> "none", column |-> <<>>, vals |-> <<>>, global_min_val |-> 0,
     i |-> 1]

\* a generator that ended with the exception e
Ended(gen, e) == [gen EXCEPT !.started = TRUE, !.done = TRUE, !.err = e]

\* what one next(it) has done: the generator after the call, the item it
\* yielded (none when it raised) and the exception it raised
Pulled(gen, items) ==
    [it |-> gen, items |-> items,
     err |-> IF items = <<>> THEN gen.err ELSE "none"]

\* the body of the generator up to its loop: `column = self.column`, for
\* __iter__ `global_min_val = min(self.unique_values)`, and the array of
\* `for val in self.unique_values`
start(self, sp, gen) ==
    IF sp.colname \notin self.dataset.cols THEN Ended(gen, "KeyError")
    ELSE IF gen.name = "__iter__" /\ Len(self.dataset.rows) = 0
    THEN Ended(gen, "ValueError")
    ELSE [gen EXCEPT !.started = TRUE,
                    !.column = column(self, sp),
                    !.vals = unique_values(self, sp),
                    !.global_min_val =
                        IF gen.name = "__iter__"
                        THEN Min(Range(unique_values(self, sp))) ELSE 0]

\* a faulty variant of reraise: every error is passed on
reraise_always(errors) == TRUE

\* `except Exception as err: if errors == 'raise': raise`
reraise(errors) == errors = "raise"

\* the loop of a started generator, from its position to its next yield, to
\* the exception that ends it or to the end of the array; iteritems goes on
\* to the next value after an error it does not pass on
RECURSIVE resume(_, _, _)
resume(self, sp, gen) ==
    IF gen.i > Len(gen.vals) THEN Pulled(Ended(gen, "StopIteration"), <<>>)
    ELSE LET val == gen.vals[gen.i]
             r   == IF gen.name = "__iter__"
                    THEN iter_split(self, sp, gen.column, gen.global_min_val,
                                    val)
                    ELSE item_split(self, sp, gen.column, val)
             on  == [gen EXCEPT !.i = @ + 1]
         IN  IF r.err = "none"
             THEN Pulled(on, <<[val |-> val, split |-> r.split]>>)
             ELSE IF gen.name = "__iter__" \/ reraise(gen.errors)
             THEN Pulled(Ended(gen, r.err), <<>>)
             ELSE resume(self, sp, on)

\* next(gen) on the generator gen of the splitter sp, self being the parent
\* as it is at this call
next(self, sp, gen) ==
    IF gen.done THEN [it |-> gen, items |-> <<>>, err |-> "StopIteration"]
    ELSE IF gen.started THEN resume(self, sp, gen)
    ELSE IF start(self, sp, gen).done THEN Pulled(start(self, sp, gen), <<>>)
    ELSE resume(self, sp, start(self, sp, gen))

\* the item a generator-free call returns, or the exception it raised
Yielded(items, e) == [items |-> items, err |-> e]

\* splitter[val]
PandasDatasetSplitter_getitem(self, sp, val) ==
    IF sp.colname \notin self.dataset.cols THEN Yielded(<<>>, "KeyError")
    ELSE IF ~Contains(unique_values(self, sp), val)
    THEN Yielded(<<>>, "ValueError")
    ELSE LET r == item_split(self, sp, column(self, sp), val)
         IN  IF r.err # "none" THEN Yielded(<<>>, r.err)
             ELSE Yielded(<<[val |-> val, split |-> r.split]>>, "none")

---------------------------------------------------------------------------
(* Inputs: the feature guide and the tables the behaviours start from.     *)

\* t:grade; e:student,course; c:major; r:gpa,age;
TheGuide ==
    [target |-> "grade", index |-> <<>>, key |-> <<>>,
     entities |-> <<"student", "course">>, categoricals |-> <<"major">>,
     real_valueds |-> <<"gpa", "age">>]

AllCols == {"grade", "student", "course", "major", "gpa", "age"}

Row(student, course, gpa, age) ==
    [c \in AllCols |->
        CASE c = "student" -> student
          [] c = "course" -> course
          [] c = "gpa" -> gpa
          [] c = "age" -> age
          [] OTHER -> 0]

\* rows that differ in their entity ids
IdRow(student, course) == Row(student, course, Real(1), Real(2))
IdTrainRows == {IdRow(1, 10), IdRow(2, 20), IdRow(3, 10), IdRow(1, 20)}
IdTestRows == {IdRow(2, 20), IdRow(4, 20), IdRow(3, 30)}

\* rows that differ in their real-valued cells
RealRow(gpa, age) == Row(1, 10, gpa, age)
RealTrainRows ==
    {RealRow(Real(1), NaN), RealRow(NaN, NaN), RealRow(Real(3), Real(2)),
     RealRow(Real(8), Real(4))}
RealTestRows == {RealRow(Real(2), Real(6)), RealRow(NaN, NaN)}

\* the sequences of lo..hi distinct rows of S
DistinctSeqs(S, lo, hi) ==
    {s \in SeqsOf(S, lo, hi) : \A i, j \in 1..Len(s) : i # j => s[i] # s[j]}

Tables(S, lo, hi) == {DataFrame(AllCols, rows) : rows \in DistinctSeqs(S, lo, hi)}

\* a table with the column old named new instead
RenameColumn(df, old, new) ==
    DataFrame((df.cols \ {old}) \cup {new},
              [i \in 1..Len(df.rows) |->
                  [c \in (df.cols \ {old}) \cup {new} |->
                      IF c = new THEN df.rows[i][old] ELSE df.rows[i][c]]])

\* test tables whose columns differ from the training table's: one column
\* fewer, and as many columns under another name
OddTestTables ==
    LET t == DataFrame(AllCols, <<IdRow(2, 20)>>)
    IN  {pop(t, "age"), RenameColumn(t, "age", "hours")}

---------------------------------------------------------------------------
(* The state machine: one action per call.                                 *)

Self ==
    [fguide |-> fguide, dataset |-> dataset, train |-> train, test |-> test,
     column_maps |-> column_maps, imputations |-> imputations,
     scalers |-> scalers]

Call(name, cols, arg, method) ==
    [name |-> name, cols |-> cols, arg |-> arg, method |-> method]

\* the effect of a call with result r on an object of kind k
Becomes(k, r, call) ==
    /\ steps < MaxSteps
    /\ kind' = k
    /\ fguide' = r.self.fguide
    /\ dataset' = r.self.dataset
    /\ train' = r.self.train
    /\ test' = r.self.test
    /\ column_maps' = r.self.column_maps
    /\ imputations' = r.self.imputations
    /\ scalers' = r.self.scalers
    /\ err' = r.err
    /\ lastOp' = call
    /\ before' = Self
    /\ ret' = IF "ret" \in DOMAIN r THEN r.ret ELSE None
    /\ UNCHANGED <<splitter, splits, it, config>>
    /\ steps' = steps + 1

Init ==
    /\ kind = "none"
    /\ fguide = TheGuide
    /\ dataset = NoTable
    /\ train = NoTable
    /\ test = NoTable
    /\ column_maps = EmptyMap
    /\ imputations = EmptyMap
    /\ scalers = EmptyMap
    /\ err = "none"
    /\ lastOp = Call("load", <<>>, "", "")
    /\ before = NewSelf(TheGuide)
    /\ ret = None
    /\ splitter = None
    /\ splits = <<>>
    /\ it = None
    /\ config = <<>>
    /\ steps = 0

\* PandasTrainTestSplit(train_df, test_df, fguide); a rejected construction
\* leaves no instance
NewSplit(trainTables, testTables) ==
    /\ kind = "none"
    /\ \E train_df \in trainTables, test_df \in testTables :
          LET r == PandasTrainTestSplit_init(train_df, test_df, fguide)
          IN  Becomes(IF r.err = "none" THEN "split" ELSE "none",
                      IF r.err = "none" THEN r ELSE Raise(Self, r.err),
                      [Call("__init__", <<>>, "", "") EXCEPT
                          !.cols = <<train_df, test_df>>])

\* PandasFullDataset(fname, config_file)
NewFull(tables) ==
    /\ kind = "none"
    /\ \E df \in tables :
          Becomes("full", PandasFullDataset_init(df, fguide),
                  Call("__init__", <<df>>, "", ""))

NotMapped == {"raise", "warn"}
Methods == {"mean", "median"}

MapColumnToIndex(columns) ==
    \E col \in columns :
       \/ /\ kind = "split"
          /\ Becomes("split", PandasTrainTestSplit_map_column_to_index(Self, col),
                     Call("map_column_to_index", <<col>>, "", ""))
       \/ /\ kind = "full"
          /\ Becomes("full", PandasFullDataset_map_column_to_index(Self, col),
                     Call("map_column_to_index", <<col>>, "", ""))

UnmapColumnFromIndex(columns) ==
    \E col \in columns, not_mapped \in NotMapped :
       \/ /\ kind = "split"
          /\ Becomes("split",
                     PandasTrainTestSplit_unmap_column_from_index(
                         Self, col, not_mapped),
                     Call("unmap_column_from_index", <<col>>, not_mapped, ""))
       \/ /\ kind = "full"
          /\ Becomes("full",
                     PandasFullDataset_unmap_column_from_index(
                         Self, col, not_mapped),
                     Call("unmap_column_from_index", <<col>>, not_mapped, ""))

RemoveFeature(names) ==
    \E name \in names :
       \/ /\ kind = "split"
          /\ Becomes("split", PandasTrainTestSplit_remove_feature(Self, name),
                     Call("remove_feature", <<name>>, "", ""))
       \/ /\ kind = "full"
          /\ Becomes("full", PandasFullDataset_remove_feature(Self, name),
                     Call("remove_feature", <<name>>, "", ""))

RemoveColdStart(entityLists) ==
    /\ kind = "split"
    /\ \E entities \in entityLists :
          Becomes("split", PandasTrainTestSplit_remove_cold_start(Self, entities),
                  Call("remove_cold_start",
                       IF entities = "None" THEN fguide.entities ELSE entities,
                       IF entities = "None" THEN "None" ELSE "", ""))

Impute(columnLists) ==
    \E columns \in columnLists, method \in Methods, all_null \in allowed :
       \/ /\ kind = "split"
          /\ Becomes("split",
                     PandasTrainTestSplit_impute(Self, columns, method, all_null),
                     Call("impute", columns, all_null, method))
       \/ /\ kind = "full"
          /\ Becomes("full",
                     PandasFullDataset_impute(Self, columns, method, all_null),
                     Call("impute", columns, all_null, method))

Scale(columnLists) ==
    \E columns \in columnLists :
       \/ /\ kind = "split"
          /\ Becomes("split", PandasTrainTestSplit_scale(Self, columns),
                     Call("scale", columns, "", ""))
       \/ /\ kind = "full"
          /\ Becomes("full", PandasFullDataset_scale(Self, columns),
                     Call("scale", columns, "", ""))

Unscale(columnLists) ==
    \E columns \in columnLists :
       \/ /\ kind = "split"
          /\ Becomes("split", PandasTrainTestSplit_unscale(Self, columns),
                     Call("unscale", columns, "", ""))
       \/ /\ kind = "full"
          /\ Becomes("full", PandasFullDataset_unscale(Self, columns),
                     Call("unscale", columns, "", ""))

(* Entity data: construction, index mapping, cold-start removal.           *)
NewIdSplit ==
    NewSplit(Tables(IdTrainRows, 0, MaxIdTrainRows),
             Tables(IdTestRows, 0, MaxIdTestRows) \cup OddTestTables)
NewIdFull == NewFull(Tables(IdTrainRows, 1, MaxIdTrainRows))
MapEntity == MapColumnToIndex({"student", "course"})
UnmapEntity == UnmapColumnFromIndex({"student"})
RemoveEntity == RemoveFeature({"student", "age"})
ColdStart == RemoveColdStart({"None", <<"course">>})

NextIds ==
    \/ NewIdSplit
    \/ NewIdFull
    \/ MapEntity
    \/ UnmapEntity
    \/ RemoveEntity
    \/ ColdStart

SpecIds == Init /\ [][NextIds]_vars

(* Real-valued data: imputation and scaling.                               *)
RealLists == {<<"gpa", "age">>, <<"age", "gpa">>}
NewRealSplit ==
    NewSplit(Tables(RealTrainRows, 1, MaxRealTrainRows),
             Tables(RealTestRows, 1, 1))
NewRealFull == NewFull(Tables(RealTrainRows, 1, MaxRealTrainRows))
ImputeReals == Impute(RealLists)
ScaleReals == Scale({<<"gpa">>, <<"gpa", "age">>})
UnscaleReals == Unscale({<<"gpa">>, <<"age", "gpa">>})
RemoveReal == RemoveFeature({"gpa"})

NextReals ==
    \/ NewRealSplit
    \/ NewRealFull
    \/ ImputeReals
    \/ ScaleReals
    \/ UnscaleReals
    \/ RemoveReal

SpecReals == Init /\ [][NextReals]_vars

(* Imputation with the 'drop' policy: tables in which either real-valued   *)
(* column can be entirely missing while the other is not.                  *)
ImputeGuideReals ==
    \E method \in Methods, all_null \in allowed :
       \/ /\ kind = "split"
          /\ Becomes("split",
                     PandasTrainTestSplit_impute_reals(Self, method, all_null),
                     Call("impute_reals", fguide.real_valueds, all_null,
                          method))
       \/ /\ kind = "full"
          /\ Becomes("full",
                     PandasFullDataset_impute_reals(Self, method, all_null),
                     Call("impute_reals", fguide.real_valueds, all_null,
                          method))

DropTrainRows ==
    {RealRow(NaN, Real(5)), RealRow(NaN, NaN), RealRow(Real(3), NaN),
     RealRow(Real(8), Real(4))}
NewDropSplit ==
    NewSplit(Tables(DropTrainRows, 1, MaxRealTrainRows),
             Tables(RealTestRows, 1, 1))
NewDropFull == NewFull(Tables(DropTrainRows, 1, MaxRealTrainRows))

\* preprocess() on a full dataset
PreprocessFull ==
    /\ kind = "full"
    /\ Becomes("full", PandasFullDataset_preprocess(Self),
               Call("preprocess", <<>>, "", ""))

NextDrop ==
    \/ NewDropSplit
    \/ NewDropFull
    \/ PreprocessFull
    \/ ImputeReals
    \/ ImputeGuideReals
    \/ RemoveReal

SpecDrop == Init /\ [][NextDrop]_vars

(* Encoding and preprocess: splits over three feature guides.              *)

\* t:grade; e:student,course; c:; r:gpa;
GuideExample ==
    [target |-> "grade", index |-> <<>>, key |-> <<>>,
     entities |-> <<"student", "course">>, categoricals |-> <<>>,
     real_valueds |-> <<"gpa">>]
\* t:grade; e:student,course; c:major; r:;
GuideNoReals ==
    [GuideExample EXCEPT !.categoricals = <<"major">>, !.real_valueds = <<>>]
\* t:grade; e:student,course; c:course_level; r:gpa;
GuideSubstring == [GuideExample EXCEPT !.categoricals = <<"course_level">>]

PrepGuides == {GuideExample, GuideNoReals, GuideSubstring}

\* the columns a table read for the guide fg has
GuideCols(fg) == all_names(fg)

PrepRow(fg, student, course, cat, real, grade) ==
    [c \in GuideCols(fg) |->
        IF c = "student" THEN student
        ELSE IF c = "course" THEN course
        ELSE IF Contains(fg.categoricals, c) THEN cat
        ELSE IF Contains(fg.real_valueds, c) THEN real
        ELSE grade]

PrepTrainRows(fg) ==
    {PrepRow(fg, 1, 10, 2, Real(3), 1), PrepRow(fg, 2, 20, 0, NaN, 2),
     PrepRow(fg, 3, 10, 2, Real(8), 3)}
PrepTestRows(fg) ==
    {PrepRow(fg, 2, 20, 1, Real(2), 4), PrepRow(fg, 4, 20, 0, NaN, 5),
     PrepRow(fg, 3, 30, 2, Real(5), 3)}

PrepTables(fg, S, lo, hi) ==
    {DataFrame(GuideCols(fg), rows) : rows \in DistinctSeqs(S, lo, hi)}

InitPrep ==
    /\ kind = "none"
    /\ fguide \in PrepGuides
    /\ dataset = NoTable
    /\ train = NoTable
    /\ test = NoTable
    /\ column_maps = EmptyMap
    /\ imputations = EmptyMap
    /\ scalers = EmptyMap
    /\ err = "none"
    /\ lastOp = Call("load", <<>>, "", "")
    /\ before = NewSelf(fguide)
    /\ ret = None
    /\ splitter = None
    /\ splits = <<>>
    /\ it = None
    /\ config = <<>>
    /\ steps = 0

NewPrepSplit ==
    NewSplit(PrepTables(fguide, PrepTrainRows(fguide), 1, MaxIdTrainRows),
             PrepTables(fguide, PrepTestRows(fguide), 1, MaxIdTestRows))

\* one_hot_encode(columns) for the entity and categorical columns of the
\* guide, in the guide's order and with the categoricals first, on a split
\* that preprocess has not been run on
OneHotEncode ==
    /\ kind = "split"
    /\ lastOp.name # "preprocess"
    /\ \E columns \in {<<>>, fguide.entities,
                       fguide.categoricals \o fguide.entities,
                       fguide.entities \o fguide.categoricals} :
          Becomes("split", PandasTrainTestSplit_one_hot_encode(Self, columns),
                  Call("one_hot_encode", columns, "", ""))

\* the flags of a preprocess call
Flags(all_null, normalize, use_ents, ohc_ents, use_cats, remove_cold_start) ==
    [all_null |-> all_null, normalize |-> normalize, use_ents |-> use_ents,
     ohc_ents |-> ohc_ents, use_cats |-> use_cats,
     remove_cold_start |-> remove_cold_start]

\* preprocess(...), run on a split as it was constructed
Preprocess ==
    /\ kind = "split"
    /\ lastOp.name = "__init__"
    /\ \E all_null \in allowed, normalize \in BOOLEAN, use_ents \in BOOLEAN,
          ohc_ents \in BOOLEAN, use_cats \in BOOLEAN,
          remove_cold_start \in BOOLEAN :
          Becomes("split",
                  PandasTrainTestSplit_preprocess(
                      Self, Flags(all_null, normalize, use_ents, ohc_ents,
                                  use_cats, remove_cold_start)),
                  Call("preprocess", <<>>,
                       Flags(all_null, normalize, use_ents, ohc_ents,
                             use_cats, remove_cold_start), ""))

NextPrep ==
    \/ NewPrepSplit
    \/ OneHotEncode
    \/ Preprocess

SpecPrep == InitPrep /\ [][NextPrep]_vars

(* Splitting: a loaded dataset, a splitter over its term column, the       *)
(* splits it yields and calls on one of them.                              *)

\* t:grade; e:student,term; c:; r:gpa;
SplitGuide ==
    [target |-> "grade", index |-> <<>>, key |-> <<>>,
     entities |-> <<"student", "term">>, categoricals |-> <<>>,
     real_valueds |-> <<"gpa">>]

TermRow(student, term, gpa, grade) ==
    [c \in all_names(SplitGuide) |->
        CASE c = "student" -> student
          [] c = "term" -> term
          [] c = "gpa" -> gpa
          [] OTHER -> grade]

TermRows ==
    {TermRow(1, 2, Real(3), 1), TermRow(2, 1, NaN, 2), TermRow(1, 3, Real(8), 3)}

TermTables ==
    {DataFrame(all_names(SplitGuide), rows) :
        rows \in DistinctSeqs(TermRows, 1, MaxIdTrainRows)}

InitSplitter ==
    /\ kind = "full"
    /\ fguide = SplitGuide
    /\ dataset \in TermTables
    /\ train = NoTable
    /\ test = NoTable
    /\ column_maps = EmptyMap
    /\ imputations = EmptyMap
    /\ scalers = EmptyMap
    /\ err = "none"
    /\ lastOp = Call("__init__", <<dataset>>, "", "")
    /\ before = NewSelf(SplitGuide)
    /\ ret = None
    /\ splitter = None
    /\ splits = <<>>
    /\ it = None
    /\ config = <<>>
    /\ steps = 0

\* the effect of a call on the splitter or on one of its splits
SplitterStep(call, sp, items, e, fg, b) ==
    /\ steps < MaxSteps
    /\ splitter' = sp
    /\ splits' = items
    /\ err' = e
    /\ fguide' = fg
    /\ lastOp' = call
    /\ before' = b
    /\ ret' = None
    /\ steps' = steps + 1
    /\ UNCHANGED <<kind, dataset, train, test, column_maps, imputations,
                   scalers, it, config>>

Windows == {NoWindow, <<1>>}

\* the splitter is made by dataset.split_loop(...) or by its constructor;
\* the model keeps the call with the object: via and the window asked for
MakeSplitter ==
    /\ kind = "full"
    /\ splitter = None
    /\ \E train_cmp \in {"lt", "le"}, window \in Windows :
          \/ SplitterStep(Call("split_loop", <<"term">>, "", ""),
                          [obj |-> PandasFullDataset_split_loop(
                                       "term", train_cmp, "eq", window),
                           via |-> "split_loop", window |-> window],
                          splits, "none", fguide, Self)
          \/ SplitterStep(Call("PandasDatasetSplitter", <<"term">>, "", ""),
                          [obj |-> PandasDatasetSplitter_init(
                                       "term", train_cmp, "eq", window),
                           via |-> "PandasDatasetSplitter", window |-> window],
                          splits, "none", fguide, Self)

\* a step of the generator: it becomes g and the items it yielded are kept;
\* n is 1 for the call that makes the generator and 0 for a next(it), whose
\* number the length of the column bounds
GeneratorStep(call, g, items, e, n) ==
    /\ steps + n <= MaxSteps
    /\ steps' = steps + n
    /\ it' = g
    /\ splits' = splits \o items
    /\ err' = e
    /\ lastOp' = call
    /\ before' = Self
    /\ ret' = None
    /\ UNCHANGED <<kind, fguide, dataset, train, test, column_maps,
                   imputations, scalers, splitter, config>>

\* it = iter(splitter): the generator is made, none of its body runs
Iter ==
    /\ splitter # None
    /\ splits = <<>>
    /\ it = None
    /\ GeneratorStep(Call("__iter__", <<>>, "", ""),
                     Generator("__iter__", ""), <<>>, "none", 1)

Errors == {"raise", "log", "ignore"}

\* it = splitter.iteritems(errors): the generator is made
IterItems ==
    /\ splitter # None
    /\ splits = <<>>
    /\ it = None
    /\ \E errors \in Errors :
          GeneratorStep(Call("iteritems", <<>>, errors, ""),
                        Generator("iteritems", errors), <<>>, "none", 1)

\* next(it) on a generator that has not ended: the body runs to its next
\* yield or to its end, on the parent as it is now; lastOp.method keeps the
\* name of the generator
Pull ==
    /\ it # None
    /\ ~it.done
    /\ LET y == next(Self, splitter.obj, it)
       IN  GeneratorStep(Call("next", <<>>, it.errors, it.name), y.it,
                         y.items, y.err, 0)

\* remove_feature('gpa') on the parent, before, between or after the pulls
ParentRemove ==
    /\ kind = "full"
    /\ splitter # None
    /\ Becomes("full", PandasFullDataset_remove_feature(Self, "gpa"),
               Call("remove_feature", <<"gpa">>, "", ""))

\* '%d' % n: a number as lastOp keeps it
ordinal(n) == str(decimal(n))

\* splitter[val]
GetItem ==
    /\ splitter # None
    /\ splits = <<>>
    /\ it = None
    /\ \E val \in 1..3 :
          LET y == PandasDatasetSplitter_getitem(Self, splitter.obj, val)
          IN  SplitterStep(Call("__getitem__", <<ordinal(val)>>, "", ""),
                           splitter,
                           y.items, y.err, fguide, Self)

\* the attributes of the split object obj, its guide read through its
\* reference (fg is the guide of the parent)
View(obj, fg) ==
    [fguide |-> IF obj.fguide.own THEN obj.fguide.val ELSE fg,
     dataset |-> NoTable, train |-> obj.train, test |-> obj.test,
     column_maps |-> obj.column_maps, imputations |-> obj.imputations,
     scalers |-> obj.scalers]

\* the split object obj after a call that left its attributes as in after;
\* the guide is changed in place
Store(obj, after) ==
    [fguide |-> IF obj.fguide.own THEN Own(after.fguide) ELSE Shared,
     train |-> after.train, test |-> after.test,
     column_maps |-> after.column_maps, imputations |-> after.imputations,
     scalers |-> after.scalers]

\* the calls made on a yielded split
SplitCalls ==
    {Call("remove_feature", <<"gpa">>, "", ""),
     Call("map_column_to_index", <<"student">>, "", ""),
     Call("impute", <<"gpa">>, "drop", "median"),
     Call("scale", <<"gpa">>, "", ""),
     Call("remove_cold_start", <<"student">>, "", "")}

ApplyCall(self, call) ==
    CASE call.name = "remove_feature" ->
            PandasTrainTestSplit_remove_feature(self, call.cols[1])
      [] call.name = "map_column_to_index" ->
            PandasTrainTestSplit_map_column_to_index(self, call.cols[1])
      [] call.name = "impute" ->
            PandasTrainTestSplit_impute(self, call.cols, call.method, call.arg)
      [] call.name = "scale" -> PandasTrainTestSplit_scale(self, call.cols)
      [] call.name = "remove_cold_start" ->
            PandasTrainTestSplit_remove_cold_start(self, call.cols)

\* a call on the k-th yielded split; lastOp.method keeps k as a text
OnSplit ==
    \E k \in 1..Len(splits), call \in SplitCalls :
       LET obj == splits[k].split
           r   == ApplyCall(View(obj, fguide), call)
       IN  SplitterStep([call EXCEPT !.name = "split." \o call.name,
                                     !.method = ordinal(k)],
                        splitter,
                        [splits EXCEPT ![k].split = Store(obj, r.self)],
                        r.err,
                        IF obj.fguide.own THEN fguide ELSE r.self.fguide,
                        View(obj, fguide))

NextSplitter ==
    \/ MakeSplitter
    \/ Iter
    \/ IterItems
    \/ Pull
    \/ ParentRemove
    \/ GetItem
    \/ OnSplit

SpecSplitter == InitSplitter /\ [][NextSplitter]_vars

(* Feature guides: a file, the guide read from it and removals from it.    *)

\* lines of feature guide files
ConfigLines ==
    {\* t:grade;
     <<"t", ":", "g", "r", "a", "d", "e", ";">>,
     \* t:grade
     <<"t", ":", "g", "r", "a", "d", "e">>,
     \* e:student,course;
     <<"e", ":", "s", "t", "u", "d", "e", "n", "t", ",", "c", "o", "u", "r", "s", "e", ";">>,
     \* e:student
     <<"e", ":", "s", "t", "u", "d", "e", "n", "t">>,
     \* e:;
     <<"e", ":", ";">>,
     \* k:student;
     <<"k", ":", "s", "t", "u", "d", "e", "n", "t", ";">>,
     \* k:rowid;
     <<"k", ":", "r", "o", "w", "i", "d", ";">>,
     \* i:rowid;
     <<"i", ":", "r", "o", "w", "i", "d", ";">>,
     \* c:course;
     <<"c", ":", "c", "o", "u", "r", "s", "e", ";">>,
     \* r:gpa,gpa;
     <<"r", ":", "g", "p", "a", ",", "g", "p", "a", ";">>,
     \* r:gpa,
     <<"r", ":", "g", "p", "a", ",">>,
     \* age;
     <<"a", "g", "e", ";">>,
     \* ' age'
     <<" ", "a", "g", "e">>,
     \* r: gpa ;
     <<"r", ":", " ", "g", "p", "a", " ", ";">>,
     \* # e:major;
     <<"#", " ", "e", ":", "m", "a", "j", "o", "r", ";">>}

\* the attributes of a guide before restore has set them
NoGuide ==
    [target |-> "", index |-> <<>>, key |-> <<>>, entities |-> <<>>,
     categoricals |-> <<>>, real_valueds |-> <<>>]

InitGuide ==
    /\ kind = "none"
    /\ config \in SeqsOf(ConfigLines, 1, MaxLines)
    /\ fguide = NoGuide
    /\ dataset = NoTable
    /\ train = NoTable
    /\ test = NoTable
    /\ column_maps = EmptyMap
    /\ imputations = EmptyMap
    /\ scalers = EmptyMap
    /\ err = "none"
    /\ lastOp = Call("open", <<>>, "", "")
    /\ before = NewSelf(NoGuide)
    /\ ret = None
    /\ splitter = None
    /\ splits = <<>>
    /\ it = None
    /\ steps = 0

\* FeatureGuide(fname)
Restore ==
    /\ kind = "none"
    /\ lastOp.name = "open"
    /\ LET r == restore(config)
       IN  IF r.err = "none"
           THEN Becomes("guide", Ok([Self EXCEPT !.fguide = r.fguide]),
                        Call("FeatureGuide", <<>>, "", ""))
           ELSE Becomes("none", Raise(Self, r.err),
                        Call("FeatureGuide", <<>>, "", ""))

RemovedNames ==
    {"grade", "student", "course", "gpa", "age", "rowid", "index"}

\* fguide.remove(name)
Remove ==
    /\ kind = "guide"
    /\ \E name \in RemovedNames :
          LET r == FeatureGuide_remove(fguide, name)
          IN  Becomes("guide",
                      [self |-> [Self EXCEPT !.fguide = r.fguide],
                       err |-> r.err],
                      Call("FeatureGuide.remove", <<name>>, "", ""))

\* the guides a guide is united with: one with the same target and names of
\* its own, one with another target
OtherGuides ==
    {[target |-> "grade", index |-> <<>>, key |-> <<>>,
      entities |-> <<"course", "term">>, categoricals |-> <<"major">>,
      real_valueds |-> <<>>],
     [target |-> "score", index |-> <<>>, key |-> <<>>,
      entities |-> <<"student">>, categoricals |-> <<>>,
      real_valueds |-> <<"gpa">>]}

\* fguide.union(other, inplace)
Union ==
    /\ kind = "guide"
    /\ \E other \in OtherGuides, inplace \in BOOLEAN :
          LET r == FeatureGuide_union(fguide, other, inplace)
          IN  Becomes("guide",
                      [self |-> [Self EXCEPT !.fguide = r.fguide],
                       err |-> r.err, ret |-> r.ret],
                      Call("union", <<other>>, inplace, ""))

\* FeatureGuide.union_all([fguide] + others)
UnionAll ==
    /\ kind = "guide"
    /\ \E others \in SeqsOf(OtherGuides, 0, 2), method \in OrderedSet_union :
          LET r == FeatureGuide_union_all(<<fguide>> \o others, method)
          IN  Becomes("guide",
                      [self |-> [Self EXCEPT !.fguide = r.guides[1]],
                       err |-> r.err, ret |-> r.ret],
                      Call("union_all", others, "", method))

\* PandasDataset.index_from_feature_guide(fguide) and fguide.feature_names
Ask ==
    /\ kind = "guide"
    /\ \/ Becomes("guide", Return(Self, index_from_feature_guide(fguide)),
                  Call("index_from_feature_guide", <<>>, "", ""))
       \/ Becomes("guide", Return(Self, feature_names(fguide)),
                  Call("feature_names", <<>>, "", ""))

NextGuide ==
    \/ Restore
    \/ Remove
    \/ Union
    \/ UnionAll
    \/ Ask

SpecGuide == InitGuide /\ [][NextGuide]_vars

---------------------------------------------------------------------------
(* Properties.  A state records the last call (lastOp), its outcome (err)  *)
(* and the attributes it started from (before), so that the effect of a    *)
(* call is a predicate of one state.                                       *)

ColRange(df, col) == {df.rows[i][col] : i \in 1..Len(df.rows)}

AllNull(df, col) == \A i \in 1..Len(df.rows) : df.rows[i][col] = NaN

SomeNull(df, col) == \E i \in 1..Len(df.rows) : df.rows[i][col] = NaN

\* the column statistic a call of impute with lastOp's method computes
Statistic(s, v) == IF lastOp.method = "mean" THEN mean(s) ELSE median(s, v)

\* C1: TrainTestSplit.impute(columns, all_null='raise') with a column that
\* is entirely missing in train fails with an error and leaves train, test,
\* the imputations and the feature guide as they were, wherever the
\* all-null column stands in the list.
C1_ImputeRaiseIsAtomic ==
    (/\ kind = "split"
     /\ lastOp.name = "impute"
     /\ lastOp.arg = "raise"
     /\ Range(lastOp.cols) \subseteq before.train.cols
     /\ \E c \in Range(lastOp.cols) : AllNull(before.train, c))
    => /\ err = "ValueError"
       /\ train = before.train
       /\ test = before.test
       /\ imputations = before.imputations
       /\ fguide = before.fguide

\* the call impute([B, A], all_null='raise') was made with A all null in
\* train and B, ahead of it in the list, partly missing; it raised
C1_Witness ==
    /\ kind = "split"
    /\ lastOp.name = "impute"
    /\ lastOp.arg = "raise"
    /\ Len(lastOp.cols) = 2
    /\ AllNull(before.train, lastOp.cols[2])
    /\ ~AllNull(before.train, lastOp.cols[1])
    /\ SomeNull(before.train, lastOp.cols[1])
    /\ err = "ValueError"

\* C2: the statistic a TrainTestSplit stores for an imputed or scaled
\* column is computed from the cells of the training table alone (the test
\* table is no argument of it), and that stored statistic is the one applied
\* to train and to test.
C2_NoLeakage ==
    (kind = "split" /\ err = "none")
    => /\ lastOp.name = "impute" =>
            \A c \in Range(lastOp.cols) \cap train.cols :
                LET stat == Statistic(Column(before.train, c),
                                      Radicand(before, c))
                IN  /\ c \in DOMAIN imputations
                    /\ imputations[c] = stat
                    /\ Column(train, c) = fillna(Column(before.train, c), stat)
                    /\ Column(test, c) = fillna(Column(before.test, c), stat)
       /\ lastOp.name = "scale" =>
            \A c \in Range(lastOp.cols) :
                (c \notin DOMAIN before.scalers) =>
                    LET sc == fit(Column(before.train, c))
                    IN  /\ scalers[c] = [scaler |-> sc, scaled |-> TRUE]
                        /\ Column(train, c) =
                              MapSeq(Column(before.train, c),
                                     LAMBDA x : transform(x, sc))
                        /\ Column(test, c) =
                              MapSeq(Column(before.test, c),
                                     LAMBDA x : transform(x, sc))

\* a column with missing training cells was imputed, and the statistic of
\* train and test together would have been another number
C2_Witness ==
    /\ kind = "split"
    /\ err = "none"
    /\ lastOp.name = "impute"
    /\ \E c \in Range(lastOp.cols) \cap train.cols :
          /\ c \in DOMAIN imputations
          /\ imputations[c] # NaN
          /\ SomeNull(before.train, c)
          /\ Statistic(Column(before.train, c) \o Column(before.test, c),
                       Radicand(before, c)) # imputations[c]

\* C3: after remove_cold_start() the values of every entity column of the
\* guide in test are values of that column in train; with an entity list,
\* the same for the listed columns.
C3_ColdStartSubset ==
    (lastOp.name = "remove_cold_start" /\ err = "none")
    => \A e \in Range(lastOp.cols) : ColRange(test, e) \subseteq ColRange(train, e)

\* remove_cold_start() ran over two entity columns and removed some, not
\* all, test rows
C3_Witness ==
    /\ lastOp.name = "remove_cold_start"
    /\ lastOp.arg = "None"
    /\ err = "none"
    /\ Len(lastOp.cols) = 2
    /\ Len(test.rows) > 0
    /\ Len(test.rows) < Len(before.test.rows)

\* C4: map_column_to_index(col) on a column that is already in column_maps
\* changes neither the tables nor column_maps, on a Dataset and on a
\* TrainTestSplit.
C4_MapIdempotent ==
    (/\ lastOp.name = "map_column_to_index"
     /\ lastOp.cols[1] \in DOMAIN before.column_maps)
    => /\ err = "none"
       /\ train = before.train
       /\ test = before.test
       /\ dataset = before.dataset
       /\ column_maps = before.column_maps

\* the second of two map_column_to_index(col) calls on a split, the first
\* having rewritten the column (some id is not its own index)
C4_Witness ==
    /\ kind = "split"
    /\ lastOp.name = "map_column_to_index"
    /\ lastOp.cols[1] \in DOMAIN before.column_maps
    /\ AllKeys(train, lastOp.cols[1], column_maps[lastOp.cols[1]])
    /\ \E k \in DOMAIN column_maps[lastOp.cols[1]] :
          column_maps[lastOp.cols[1]][k] # k

\* position of the first cell equal to x in the sequence s
FirstIndex(s, x) == CHOOSE i \in 1..Len(s) : s[i] = x /\ \A j \in 1..(i - 1) : s[j] # x

\* C5: TrainTestSplit.map_column_to_index(col), on a column not mapped yet,
\* stores a bijection between 0..n-1 and the n distinct ids of train[col]
\* and test[col], rewrites both tables with it (each cell holds the index of
\* its former id, so equal ids get equal indices and every cell is in
\* 0..n-1), and numbers the ids in order of first appearance, train first.
C5_MapIsBijection ==
    (/\ kind = "split"
     /\ lastOp.name = "map_column_to_index"
     /\ lastOp.cols[1] \notin DOMAIN before.column_maps
     /\ err = "none")
    => LET col == lastOp.cols[1]
           old == Column(before.train, col) \o Column(before.test, col)
           ids == Range(old)
           n   == Cardinality(ids)
           rm  == column_maps[col]
       IN  /\ col \in DOMAIN column_maps
           /\ DOMAIN rm = 0..(n - 1)
           /\ {rm[k] : k \in DOMAIN rm} = ids
           /\ \A j, k \in DOMAIN rm : j # k => rm[j] # rm[k]
           /\ \A i \in 1..Len(train.rows) :
                 /\ train.rows[i][col] \in 0..(n - 1)
                 /\ rm[train.rows[i][col]] = before.train.rows[i][col]
           /\ \A i \in 1..Len(test.rows) :
                 /\ test.rows[i][col] \in 0..(n - 1)
                 /\ rm[test.rows[i][col]] = before.test.rows[i][col]
           /\ \A j, k \in DOMAIN rm :
                 j < k => FirstIndex(old, rm[j]) < FirstIndex(old, rm[k])

\* the example of the specification: train students 1, 2, 3, test student 2
\* left after the cold-start removal; the map is 0:1, 1:2, 2:3 and student 2
\* of test became 1
C5_Witness ==
    /\ kind = "split"
    /\ lastOp.name = "map_column_to_index"
    /\ lastOp.cols = <<"student">>
    /\ err = "none"
    /\ Column(before.train, "student") = <<1, 2, 3>>
    /\ Column(before.test, "student") = <<2>>
    /\ "student" \in DOMAIN column_maps
    /\ column_maps["student"] = [k \in 0..2 |-> k + 1]
    /\ Column(train, "student") = <<0, 1, 2>>
    /\ Column(test, "student") = <<1>>

\* C6: on a TrainTestSplit, unmap_column_from_index(col) on a mapped column
\* completes without error, puts the original ids back into train and test
\* and removes col from column_maps.
C6_UnmapRestoresIds ==
    (/\ kind = "split"
     /\ lastOp.name = "unmap_column_from_index"
     /\ lastOp.cols[1] \in DOMAIN before.column_maps
     /\ lastOp.cols[1] \in before.train.cols \cap before.test.cols
     /\ AllKeys(before.train, lastOp.cols[1], before.column_maps[lastOp.cols[1]])
     /\ AllKeys(before.test, lastOp.cols[1], before.column_maps[lastOp.cols[1]]))
    => LET col == lastOp.cols[1]
           rm  == before.column_maps[col]
       IN  /\ err = "none"
           /\ col \notin DOMAIN column_maps
           /\ Column(train, col) = apply(Column(before.train, col), rm)
           /\ Column(test, col) = apply(Column(before.test, col), rm)

TablesHave(self, cols) ==
    IF kind = "split" THEN cols \subseteq self.train.cols \cap self.test.cols
    ELSE cols \subseteq self.dataset.cols

\* the columns of the last call that a completed scale had scaled: marked
\* scaled, the scaler fitted, no missing cell left in the tables
ScaledBefore ==
    {c \in Range(lastOp.cols) :
        /\ c \in DOMAIN before.scalers
        /\ before.scalers[c].scaled
        /\ before.scalers[c].scaler.fitted
        /\ TablesHave(before, {c})
        /\ IF kind = "split"
           THEN ~SomeNull(before.train, c) /\ ~SomeNull(before.test, c)
           ELSE ~SomeNull(before.dataset, c)}

\* C7: unscale(columns) completes without error, puts the values a scaled
\* column had before scale back into the tables and clears its scaled flag
\* (so that scale scales it again); a never-scaled column is left alone.
C7_UnscaleRestoresAndClears ==
    (/\ lastOp.name = "unscale"
     /\ TablesHave(before, Range(lastOp.cols))
     /\ \A c \in Range(lastOp.cols) :
           c \in ScaledBefore \/ c \notin DOMAIN before.scalers)
    => /\ err = "none"
       /\ \A c \in Range(lastOp.cols) :
             IF c \in ScaledBefore
             THEN LET sc == before.scalers[c].scaler
                      back(s) == MapSeq(s, LAMBDA y : inverse_transform(y, sc))
                  IN  /\ ~scalers[c].scaled
                      /\ kind = "split" =>
                            /\ Column(train, c) = back(Column(before.train, c))
                            /\ Column(test, c) = back(Column(before.test, c))
                      /\ kind = "full" =>
                            Column(dataset, c) = back(Column(before.dataset, c))
             ELSE /\ kind = "split" =>
                        /\ Column(train, c) = Column(before.train, c)
                        /\ Column(test, c) = Column(before.test, c)
                  /\ kind = "full" =>
                        Column(dataset, c) = Column(before.dataset, c)

\* C8: scale skips a column that is already marked scaled: its cells in
\* train, test and the dataset and its stored scaler stay as they are, and a
\* call whose columns are all marked scaled changes nothing at all.
C8_ScaleIdempotent ==
    (/\ lastOp.name = "scale"
     /\ TablesHave(before, Range(lastOp.cols)))
    => /\ \A c \in Range(lastOp.cols) :
             (c \in DOMAIN before.scalers /\ before.scalers[c].scaled) =>
                /\ c \in DOMAIN scalers
                /\ scalers[c] = before.scalers[c]
                /\ kind = "split" =>
                      /\ Column(train, c) = Column(before.train, c)
                      /\ Column(test, c) = Column(before.test, c)
                /\ kind = "full" =>
                      Column(dataset, c) = Column(before.dataset, c)
       /\ (\A c \in Range(lastOp.cols) :
              c \in DOMAIN before.scalers /\ before.scalers[c].scaled)
          => /\ err = "none"
             /\ train = before.train
             /\ test = before.test
             /\ dataset = before.dataset
             /\ scalers = before.scalers

\* scale was called on a split for a column that an earlier scale had fitted
\* (nonzero variance) and rewritten
C8_Witness ==
    /\ kind = "split"
    /\ lastOp.name = "scale"
    /\ err = "none"
    /\ \E c \in ScaledBefore :
          /\ RSign(before.scalers[c].scaler.var_) # 0
          /\ c \in train.cols
          /\ \A i \in 1..Len(train.rows) :
                inverse_transform(train.rows[i][c], scalers[c].scaler)
                    # train.rows[i][c]

\* C9: the construction of a TrainTestSplit is rejected, and no instance is
\* made, when train has no rows, test has no rows, or the columns of train
\* and test are not the same (as many columns under other names included).
C9_ConstructionRejected ==
    (/\ lastOp.name = "__init__"
     /\ Len(lastOp.cols) = 2
     /\ \/ Len(lastOp.cols[1].rows) = 0
        \/ Len(lastOp.cols[2].rows) = 0
        \/ lastOp.cols[1].cols # lastOp.cols[2].cols)
    => err # "none" /\ kind = "none"

\* the table the last call read the training cells from
TrainSide(self) == IF kind = "split" THEN self.train ELSE self.dataset

\* C10: impute(columns, all_null='ignore') skips a column that is entirely
\* missing in the training data: its cells stay as they are, it stays in the
\* guide and no entry for it is recorded in imputations; the other columns
\* get their entry.
C10_ImputeIgnoreSkips ==
    (/\ lastOp.name = "impute"
     /\ lastOp.arg = "ignore"
     /\ TablesHave(before, Range(lastOp.cols))
     /\ err = "none")
    => /\ \A c \in Range(lastOp.cols) :
             IF AllNull(TrainSide(before), c)
             THEN /\ TrainSide(Self) = TrainSide(before)
                     \/ Column(TrainSide(Self), c) = Column(TrainSide(before), c)
                  /\ Contains(fguide.real_valueds, c)
                  /\ c \notin DOMAIN before.imputations
                        => c \notin DOMAIN imputations
             ELSE c \in DOMAIN imputations

\* the cells of column c after fillna with the statistic of the training
\* cells
Imputed(c) ==
    LET stat == Statistic(Column(before.train, c), Radicand(before, c))
    IN  /\ c \in train.cols \cap test.cols
        /\ c \in DOMAIN imputations
        /\ imputations[c] = stat
        /\ Column(train, c) = fillna(Column(before.train, c), stat)
        /\ Column(test, c) = fillna(Column(before.test, c), stat)

\* C11: on a TrainTestSplit, impute(columns, all_null='drop'), also called
\* as impute_reals on the guide's own real_valueds, completes; it removes
\* every requested column that is entirely missing in train from the guide,
\* from train and from test and records no imputation for it; it imputes
\* every other requested column, whatever was dropped ahead of it.
C11_ImputeDropRemoves ==
    (/\ kind = "split"
     /\ lastOp.name \in {"impute", "impute_reals"}
     /\ lastOp.arg = "drop"
     /\ TablesHave(before, Range(lastOp.cols))
     /\ Range(lastOp.cols) \subseteq Range(before.fguide.real_valueds))
    => /\ err = "none"
       /\ \A c \in Range(lastOp.cols) :
             IF AllNull(before.train, c)
             THEN /\ \A sec \in feature_sections : ~Contains(fguide[sec], c)
                  /\ c \notin train.cols
                  /\ c \notin test.cols
                  /\ c \notin DOMAIN before.imputations
                        => c \notin DOMAIN imputations
             ELSE /\ Contains(fguide.real_valueds, c)
                  /\ Imputed(c)

\* impute_reals(all_null='drop') ran on a split whose first real-valued
\* column was entirely missing in train and whose second one was partly
\* missing: the first is gone and the second was filled
C11_Witness ==
    /\ kind = "split"
    /\ lastOp.name = "impute_reals"
    /\ lastOp.arg = "drop"
    /\ err = "none"
    /\ Len(lastOp.cols) = 2
    /\ AllNull(before.train, lastOp.cols[1])
    /\ SomeNull(before.train, lastOp.cols[2])
    /\ ~AllNull(before.train, lastOp.cols[2])
    /\ lastOp.cols[1] \notin train.cols
    /\ ~SomeNull(train, lastOp.cols[2])

\* the distinct values of column c in train and test together
Levels(c) == ColRange(train, c) \cup ColRange(test, c)

\* every row of the matrix m encodes its row of df: its width is that of the
\* feature map and, in the block of each column of cols (the block of
\* cols[j] starts after the levels of cols[1..j-1]), it has a single 1, at
\* the position labelled with the row's value, and 0 elsewhere
Encodes(m, df, cols, fmap) ==
    LET count(j)  == Cardinality(Levels(cols[j]))
        offset(j) == SumSeq([k \in 1..(j - 1) |-> count(k)])
    IN  /\ Len(m.rows) = Len(df.rows)
        /\ \A i \in 1..Len(m.rows) :
              /\ Len(m.rows[i]) = m.ncols
              /\ \A j \in 1..Len(cols) :
                    \E k \in (offset(j) + 1)..(offset(j) + count(j)) :
                       /\ m.rows[i][k] = Real(1)
                       /\ fmap[k] = <<cols[j], df.rows[i][cols[j]]>>
                       /\ \A l \in (offset(j) + 1)..(offset(j) + count(j)) :
                             l # k => m.rows[i][l] = Real(0)

\* C12: for a non-empty column list, one_hot_encode returns a train and a
\* test matrix of one width, which is the sum over the columns of the number
\* of distinct values in train and test together and the length of the
\* returned feature map; every row has exactly one 1 in the block of each
\* column, at the position the feature map labels with the row's value.
C12_OneHotWidth ==
    (lastOp.name = "one_hot_encode" /\ lastOp.cols # <<>>)
    => LET cols == lastOp.cols
           W    == SumSeq([j \in 1..Len(cols) |-> Cardinality(Levels(cols[j]))])
       IN  /\ err = "none"
           /\ ret.train_enc.ncols = W
           /\ ret.test_enc.ncols = W
           /\ Len(ret.fmap) = W
           /\ Encodes(ret.train_enc, train, cols, ret.fmap)
           /\ Encodes(ret.test_enc, test, cols, ret.fmap)

\* two columns were encoded, one of which has a level that only test has
\* and a level that only train has
C12_Witness ==
    /\ lastOp.name = "one_hot_encode"
    /\ err = "none"
    /\ Len(lastOp.cols) > 1
    /\ \E c \in Range(lastOp.cols) :
          /\ ColRange(test, c) \ ColRange(train, c) # {}
          /\ ColRange(train, c) \ ColRange(test, c) # {}
    /\ ret.train_enc.ncols = Len(ret.fmap)
    /\ ret.train_enc.ncols > Len(lastOp.cols)

\* the section of the guide the feature-map entry e comes from: 1 for an
\* entity, 2 for a categorical, 3 for a real-valued column, 0 for none
SectionOf(e) ==
    IF Contains(fguide.entities, e[1]) THEN 1
    ELSE IF Contains(fguide.categoricals, e[1]) THEN 2
    ELSE IF Contains(fguide.real_valueds, e[1]) THEN 3
    ELSE 0

\* column i of the matrix m is the column of df that the entry e names: the
\* indicator of the level for a label, the cells of the column for a name
NamesColumn(m, df, i, e) ==
    \A r \in 1..Len(m.rows) :
       IF Len(e) = 2
       THEN m.rows[r][i] = IF df.rows[r][e[1]] = e[2] THEN Real(1) ELSE Real(0)
       ELSE IF SectionOf(e) = 3 THEN m.rows[r][i] = df.rows[r][e[1]]
       ELSE m.rows[r][i] = Real(df.rows[r][e[1]])

\* the feature map fmap describes the matrix m made from df
Describes(fmap, m, df) ==
    /\ Len(fmap) = m.ncols
    /\ Len(m.rows) = Len(df.rows)
    /\ \A r \in 1..Len(m.rows) : Len(m.rows[r]) = m.ncols
    /\ \A i \in 1..Len(fmap) :
          /\ SectionOf(fmap[i]) # 0
          /\ i <= m.ncols => NamesColumn(m, df, i, fmap[i])
    /\ \A i, j \in 1..Len(fmap) :
          i < j => SectionOf(fmap[i]) <= SectionOf(fmap[j])

\* C13: when preprocess returns, whatever its flags, the feature map is
\* ordered entity entries, categorical entries, real-valued names; it has as
\* many entries as trainX and testX have columns; and entry i names the
\* source column of column i of both matrices.
C13_FmapMatchesMatrix ==
    (kind = "split" /\ lastOp.name = "preprocess" /\ err = "none")
    => /\ Describes(ret.fmap, ret.train_X, train)
       /\ Describes(ret.fmap, ret.test_X, test)

\* C14: the last value preprocess returns, nf_ents, is the number of columns
\* of the feature matrix that come from entity columns: with one-hot encoded
\* entities the sum over the entity columns of their distinct values in
\* train and test together, whatever the other columns are called; one per
\* entity column when the entities are not one-hot encoded; 0 when use_ents
\* is false.
C14_NfEntsCountsEntityColumns ==
    (kind = "split" /\ lastOp.name = "preprocess" /\ err = "none")
    => ret.nf_ents =
          IF ~lastOp.arg.use_ents THEN 0
          ELSE IF lastOp.arg.ohc_ents
          THEN SumSeq([j \in 1..Len(fguide.entities) |->
                          Cardinality(Levels(fguide.entities[j]))])
          ELSE Len(fguide.entities)

\* C15: preprocess on a split whose guide has no real-valued column, called
\* with use_ents=False and use_cats=False, raises (a ValueError) and returns
\* nothing, whatever the other flags are.
C15_NoFeaturesRaises ==
    (/\ kind = "split"
     /\ lastOp.name = "preprocess"
     /\ before.fguide.real_valueds = <<>>
     /\ ~lastOp.arg.use_ents
     /\ ~lastOp.arg.use_cats)
    => /\ err = "ValueError"
       /\ ret = None

\* such a call was made on a split with a categorical column, which the
\* code had one-hot encoded by the time it raised
C15_Witness ==
    /\ kind = "split"
    /\ lastOp.name = "preprocess"
    /\ before.fguide.real_valueds = <<>>
    /\ before.fguide.categoricals # <<>>
    /\ ~lastOp.arg.use_ents
    /\ ~lastOp.arg.use_cats
    /\ err = "ValueError"
    /\ ret = None

\* C26: when preprocess fails because no features are left to encode, the
\* train and test tables, the feature guide, column_maps, imputations and
\* scalers are the same as before the call.
C26_FailedPreprocessChangesNothing ==
    (/\ kind = "split"
     /\ lastOp.name = "preprocess"
     /\ before.fguide.real_valueds = <<>>
     /\ ~lastOp.arg.use_ents
     /\ ~lastOp.arg.use_cats
     /\ err = "ValueError")
    => /\ train = before.train
       /\ test = before.test
       /\ fguide = before.fguide
       /\ column_maps = before.column_maps
       /\ imputations = before.imputations
       /\ scalers = before.scalers

\* C30: preprocess returns its 8-tuple for every combination of flags that
\* leaves a feature column: whenever cold-start removal, index mapping,
\* imputation and scaling went through and the guide has a real-valued
\* column left after them or use_ents or use_cats is set, and in particular
\* without categoricals when use_ents is false or ohc_ents is false.
C30_PreprocessReturns ==
    (/\ kind = "split"
     /\ lastOp.name = "preprocess"
     /\ preprocess_steps(before, lastOp.arg).err = "none"
     /\ \/ preprocess_steps(before, lastOp.arg).self.fguide.real_valueds # <<>>
        \/ lastOp.arg.use_ents
        \/ lastOp.arg.use_cats)
    => /\ err = "none"
       /\ ret # None

\* the rows of the parent whose split-column cell satisfies op against v
Subset(op, v) ==
    {i \in 1..Len(dataset.rows) :
        cmp(op, dataset.rows[i][splitter.obj.colname], v)}

\* the rows of the parent numbered in rows, as a split holds them
Held(rows) == select(loc(dataset, rows), all_names(fguide))

\* the distinct values of the split column, in order of first appearance
Distinct == unique(Column(dataset, splitter.obj.colname))

\* the least value the window asked for admits in the train rows for v
Lower(v) ==
    IF splitter.window = NoWindow THEN Min(Range(Distinct))
    ELSE v - splitter.window[1]

\* C16: a splitter asked for with window w, through split_loop or through
\* the constructor, yields for the value v a split whose train rows are
\* exactly the parent's rows that satisfy train_cmp against v and whose
\* split column is at least v - w (at least the column's least value when w
\* is None), and whose test rows are those that satisfy test_cmp against v.
C16_WindowBoundsTrainRows ==
    (lastOp.name = "next" /\ err = "none")
    => LET k == Len(splits)
           v == splits[k].val
       IN  /\ splits[k].split.train =
                 Held({i \in Subset(splitter.obj.train_cmp, v) :
                          dataset.rows[i][splitter.obj.colname] >= Lower(v)})
           /\ splits[k].split.test = Held(Subset(splitter.obj.test_cmp, v))

\* the value v has a non-empty train subset and a non-empty test subset
BothNonEmpty(v) ==
    /\ Subset(splitter.obj.train_cmp, v) # {}
    /\ Subset(splitter.obj.test_cmp, v) # {}

\* the position of the first distinct value for which making the split
\* fails, or one past the last
FirstFailure ==
    Min({i \in 1..Len(Distinct) : ~BothNonEmpty(Distinct[i])}
        \cup {Len(Distinct) + 1})

\* C17: iteritems(errors) read to its end: with 'raise' it yields the pairs
\* of the distinct values before the first one whose split cannot be made
\* and ends with that error; with 'log' or 'ignore' it ends without error
\* and yields exactly one pair for every distinct value whose train and test
\* subsets are both non-empty, in the order of the distinct values. Each
\* pair holds its value and the split made from that value's subsets of the
\* parent as it is when the pair is yielded.
C17_IteritemsErrorPolicy ==
    /\ (it # None /\ it.name = "iteritems" /\ it.done)
       => IF it.errors = "raise"
          THEN /\ [k \in 1..Len(splits) |-> splits[k].val]
                      = SubSeq(Distinct, 1, FirstFailure - 1)
               /\ it.err = IF FirstFailure <= Len(Distinct) THEN "ValueError"
                           ELSE "StopIteration"
          ELSE /\ [k \in 1..Len(splits) |-> splits[k].val]
                      = SelectSeq(Distinct, BothNonEmpty)
               /\ it.err = "StopIteration"
    /\ (lastOp.name = "next" /\ lastOp.method = "iteritems" /\ err = "none")
       => /\ splits[Len(splits)].split.train =
                Held(Subset(splitter.obj.train_cmp, splits[Len(splits)].val))
          /\ splits[Len(splits)].split.test =
                Held(Subset(splitter.obj.test_cmp, splits[Len(splits)].val))

\* iteritems('log') skipped the first distinct value, whose train subset is
\* empty, yielded a pair for a later one and was read to its end
C17_Witness ==
    /\ it # None
    /\ it.name = "iteritems"
    /\ it.errors = "log"
    /\ it.done
    /\ it.err = "StopIteration"
    /\ ~BothNonEmpty(Distinct[1])
    /\ Len(splits) >= 1
    /\ splits[1].val # Distinct[1]

\* the three properties the claim names, of the tables of the split s: a
\* train row, a test row and the same columns in both (__init__ itself
\* compares the numbers of columns only, PandasTrainTestSplit_init_check)
Invariants(s) ==
    /\ Len(s.train.rows) >= 1
    /\ Len(s.test.rows) >= 1
    /\ s.train.cols = s.test.cols

\* C28: the construction invariants (at least one train row, at least one
\* test row, train and test with the same columns) hold after any sequence
\* of remove_cold_start, remove_feature, impute, scale, unscale,
\* map_column_to_index and preprocess calls on a constructed split: each of
\* these calls, made on a split for which they hold, leaves a split for
\* which they hold.
C28_ConstructionInvariantsKept ==
    (/\ kind = "split"
     /\ lastOp.name \in {"remove_cold_start", "remove_feature", "impute",
                         "scale", "unscale", "map_column_to_index",
                         "preprocess"}
     /\ Invariants(before))
    => Invariants(Self)

\* C29: the three ways of obtaining the split for a value, iter(splitter),
\* splitter.iteritems() and splitter[v], agree for every window: a split
\* that one of them has just yielded for v has the train and test rows that __iter__
\* computes for v and the train and test rows that iteritems and
\* __getitem__ compute for v.
C29_SplitWaysAgree ==
    (lastOp.name \in {"next", "__getitem__"} /\ err = "none")
    => LET k == Len(splits)
           a == iter_split(Self, splitter.obj, column(Self, splitter.obj),
                           Min(Range(Distinct)), splits[k].val)
           b == item_split(Self, splitter.obj, column(Self, splitter.obj),
                           splits[k].val)
       IN  /\ a.err = "none"
           /\ b.err = "none"
           /\ a.split.train = splits[k].split.train
           /\ b.split.train = splits[k].split.train
           /\ a.split.test = splits[k].split.test
           /\ b.split.test = splits[k].split.test

\* the position of the split the last call was made on
Called == CHOOSE k \in 1..Len(splits) : ordinal(k) = lastOp.method

SplitCallNames == {"split." \o call.name : call \in SplitCalls}

\* the split object obj as it is yielded: a guide of its own that equals the
\* parent's, and no column map, imputation or scaler
Fresh(obj) ==
    /\ obj.fguide.own
    /\ View(obj, fguide).fguide = fguide
    /\ obj.column_maps = EmptyMap
    /\ obj.imputations = EmptyMap
    /\ obj.scalers = EmptyMap

\* the split yielded last
LastFresh == Fresh(splits[Len(splits)].split)

\* C18: every split a splitter yields (through __iter__, iteritems or
\* __getitem__) has a FeatureGuide copy of its own and empty column_maps,
\* imputations and scalers, and a call that changes one split leaves the
\* parent's table and guide and every other split as they were. (Tables are
\* values here: .loc[mask] and [usecols] return new tables.)
C18_SplitsIndependent ==
    [][/\ (lastOp'.name \in {"next", "__getitem__"} /\ err' = "none")
          => LastFresh'
       /\ (lastOp'.name \in SplitCallNames)
          => /\ dataset' = dataset
             /\ fguide' = fguide
             /\ \A j \in 1..Len(splits) :
                   ordinal(j) # lastOp'.method
                   => View(splits'[j].split, fguide')
                         = View(splits[j].split, fguide)]_vars

\* remove_feature('gpa') was called on one of several splits: that split's
\* guide and tables have lost the column, the parent's guide has it
C18_Witness ==
    /\ lastOp.name = "split.remove_feature"
    /\ err = "none"
    /\ Len(splits) >= 2
    /\ View(splits[Called].split, fguide) # before
    /\ ~Contains(View(splits[Called].split, fguide).fguide.real_valueds,
                 "gpa")
    /\ "gpa" \notin splits[Called].split.train.cols
    /\ Contains(fguide.real_valueds, "gpa")

\* C19: FeatureGuide.remove(name) fails with the configuration error
\* (AttributeError) and leaves the guide as it was when name is a field of
\* the key or is the guide's target or one of its index columns; it fails
\* with the not-found error (KeyError) when name is in no feature section;
\* otherwise it takes name out of every feature section and leaves the rest
\* of the guide as it was.
C19_RemoveErrors ==
    (lastOp.name = "FeatureGuide.remove")
    => LET name == lastOp.cols[1]
           b    == before.fguide
       IN  IF \/ Contains(b.key, name)
              \/ name = b.target
              \/ Contains(b.index, name)
           THEN err = "AttributeError" /\ fguide = b
           ELSE IF name \notin feature_names(b)
           THEN err = "KeyError" /\ fguide = b
           ELSE /\ err = "none"
                /\ \A sec \in feature_sections :
                      fguide[sec] = SeqRemove(b[sec], name)
                /\ fguide.target = b.target
                /\ fguide.index = b.index

\* a line as the format reads it: the letter before its ':' ("" when it has
\* none), its names between the commas without the whitespace around them
\* and without the ';' at the end of the line, and whether it ends in ';'
Shape(line) ==
    LET parts == split(line, ":")
        body  == parts[Len(parts)]
        ended == line[Len(line)] = ";"
        csv   == IF ended THEN SubSeq(body, 1, Len(body) - 1) ELSE body
    IN  [letter |-> IF Len(parts) = 2 THEN str(strip(parts[1])) ELSE "",
         names |-> [j \in 1..Len(split(csv, ",")) |->
                       str(strip(split(csv, ",")[j]))],
         end |-> ended]

\* the lines of the file that are neither empty nor comments, as the format
\* reads them
Written ==
    [i \in 1..Len(code_lines(config)) |-> Shape(code_lines(config)[i])]

\* the line that opens the section the i-th line of the file belongs to
Opener(i) == Max({j \in 1..i : Written[j].letter # ""})

\* the file is made of sections: its first line opens one, and a line that
\* opens none follows a line that does not end in ';'
Sectioned ==
    /\ Written # <<>> => Written[1].letter # ""
    /\ \A i \in 2..Len(Written) : Written[i].letter = "" => ~Written[i - 1].end

\* some section of the file has no line ending in ';' as its last line
Unterminated ==
    \E i \in 1..Len(Written) :
       /\ i = Len(Written) \/ Written[i + 1].letter # ""
       /\ ~Written[i].end

\* the names the file declares in the section of the letter k, in order
Declared(k) ==
    Flatten([i \in 1..Len(Written) |->
                IF Written[Opener(i)].letter = k
                THEN SelectSeq(Written[i].names, LAMBDA val : val # "")
                ELSE <<>>])

\* C20: reading a file made of sections fails with the configuration error
\* (BadFeatureConfig) when it does not declare exactly one target name, when
\* it declares no entity, or when one of its sections is not terminated by a
\* line ending in ';'; otherwise the guide has, for every section, the names
\* declared in it, in order and without repetition.
C20_ParseErrors ==
    (lastOp.name = "FeatureGuide" /\ Sectioned)
    => IF \/ Len(Declared("t")) # 1
          \/ Len(Declared("e")) = 0
          \/ Unterminated
       THEN err = "BadFeatureConfig" /\ kind = "none"
       ELSE /\ err = "none"
            /\ kind = "guide"
            /\ fguide.target = Declared("t")[1]
            /\ \A k \in {"i", "k", "e", "c", "r"} :
                  fguide[config_guide[k]] = unique(Declared(k))

\* the set union of the section name over the guides of the sequence gs
SectionUnion(gs, name) == UNION {Range(gs[i][name]) : i \in 1..Len(gs)}

\* the guide u has, in every section but the target, the set union of that
\* section over the guides gs, each name once
IsUnion(u, gs) ==
    \A name \in DOMAIN u \ {"target"} :
       /\ Range(u[name]) = SectionUnion(gs, name)
       /\ Len(u[name]) = Cardinality(Range(u[name]))

\* C21: union(other) and union_all(guides) fail with an error when the
\* targets of the guides differ, and otherwise return a guide whose every
\* non-target section is the set union of that section over the guides;
\* union_all leaves the guides it is given as they were.
C21_UnionIsSectionwise ==
    /\ (lastOp.name = "union")
       => LET gs == <<before.fguide>> \o lastOp.cols
          IN  IF before.fguide.target # lastOp.cols[1].target
              THEN err # "none" /\ fguide = before.fguide
              ELSE err = "none" /\ IsUnion(ret, gs)
    /\ (lastOp.name = "union_all")
       => LET gs == <<before.fguide>> \o lastOp.cols
          IN  /\ fguide = before.fguide
              /\ IF \E i \in 1..Len(gs) : gs[i].target # gs[1].target
                 THEN err # "none"
                 ELSE err = "none" /\ IsUnion(ret, gs)

\* the names of the entities, categoricals and real_valueds sections of fg
Features(fg) ==
    Range(fg.entities) \cup Range(fg.categoricals) \cup Range(fg.real_valueds)

\* C22: the index chosen for a table is the guide's index columns when it
\* declares one; otherwise the key columns when the key is not empty and no
\* key column is also an entity, a categorical or a real-valued feature;
\* otherwise none (the empty list here).
C22_IndexChoice ==
    (lastOp.name = "index_from_feature_guide")
    => ret = IF fguide.index # <<>> THEN fguide.index
             ELSE IF fguide.key # <<>> /\ Range(fguide.key) \cap Features(fguide) = {}
             THEN fguide.key
             ELSE <<>>

\* C23: feature_names is exactly the union of the entities, categoricals
\* and real_valueds sections; a name that is only in the key, the index or
\* the target is not in it.
C23_FeatureNamesAreFeatures ==
    (lastOp.name = "feature_names") => ret = Features(fguide)

\* C27: a file that is made of sections, each terminated by a line ending
\* in ';', is read without error into the names of its sections: every name
\* goes to the section whose letter opened it, comment lines are ignored, the
\* whitespace around a name is trimmed (also before the terminating ';') and
\* empty names are discarded.
C27_NamesGoToTheirSection ==
    (lastOp.name = "FeatureGuide" /\ Sectioned /\ ~Unterminated
     /\ Len(Declared("t")) = 1 /\ Len(Declared("e")) > 0)
    => /\ err = "none"
       /\ <<fguide.target>> = Declared("t")
       /\ \A k \in {"i", "k", "e", "c", "r"} :
             fguide[config_guide[k]] = unique(Declared(k))

\* C24: unmap_column_from_index(col, not_mapped) on a column that is not in
\* column_maps fails with the not-mapped error (ValueError) when not_mapped
\* is 'raise' and returns normally when it is 'warn'; either way the tables,
\* the guide and column_maps are as they were before the call.
C24_UnmapNotMappedPolicy ==
    (/\ lastOp.name = "unmap_column_from_index"
     /\ lastOp.cols[1] \notin DOMAIN before.column_maps)
    => /\ err = IF lastOp.arg = "raise" THEN "ValueError" ELSE "none"
       /\ Self = before

\* the tables of the object self: train and test of a split, the dataset of
\* a full dataset
TablesOf(self) ==
    IF kind = "split" THEN {self.train, self.test} ELSE {self.dataset}

\* C25: remove_feature(name) fails with the error of FeatureGuide.remove
\* when that fails, leaving the object as it was; it fails with a not-found
\* error (KeyError) when the guide lists the column and a table does not
\* have it; otherwise it returns with the name removed from the guide as
\* FeatureGuide.remove removes it and the column removed from every table.
C25_RemoveFeatureErrors ==
    (lastOp.name = "remove_feature")
    => LET name == lastOp.cols[1]
           g    == FeatureGuide_remove(before.fguide, name)
       IN  IF g.err # "none" THEN err = g.err /\ Self = before
           ELSE IF \E df \in TablesOf(before) : name \notin df.cols
           THEN err = "KeyError"
           ELSE /\ err = "none"
                /\ fguide = g.fguide
                /\ TablesOf(Self) =
                      {DataFrame(df.cols \ {name},
                                 [i \in 1..Len(df.rows) |->
                                     [c \in df.cols \ {name} |-> df.rows[i][c]]])
                          : df \in TablesOf(before)}
                /\ \A df \in TablesOf(Self) : name \notin df.cols

\* remove_feature('age') on a split whose guide lists age and whose test
\* table has no such column: KeyError
C25_Witness ==
    /\ kind = "split"
    /\ lastOp.name = "remove_feature"
    /\ Contains(before.fguide.real_valueds, lastOp.cols[1])
    /\ lastOp.cols[1] \in before.train.cols
    /\ lastOp.cols[1] \notin before.test.cols
    /\ err = "KeyError"

===========================================================================
